---- MODULE Spec2Model ----
(***************************************************************************)
(* Model of the study-buddy streaming chat client.                         *)
(*                                                                         *)
(*   - JSON payloads, JSON.parse and openaiConnector.extract               *)
(*     (src/src/components/Chat.tsx 115-135)                               *)
(*   - readSSEStream (src/src/components/Chat.tsx 141-197)                 *)
(*   - the Chat component's send / stream / stop state machine             *)
(*     (src/src/components/Chat.tsx 199-335)                               *)
(*                                                                         *)
(* A JavaScript string is a sequence of characters (one-element strings),  *)
(* so that concatenation, prefixes and line splitting are computed.        *)
(***************************************************************************)
EXTENDS Integers, Sequences, FiniteSets, TLC

VARIABLES
    \* ---- openaiConnector.extract applied to one payload
    exData,         \* the payload handed to extract (token sequence)
    exOut,          \* "pending", or the outcome of extract
    \* ---- readSSEStream on one response body
    sseBody,        \* the bytes of the response body (the input)
    ssePos,         \* how many of them reader.read() has delivered
    ssePc,          \* "reading" | "resolved"
    sseLine,        \* the line last handed to processLine (its input)
    sseCuts,        \* where reads have ended so far: between a CR and its LF
                    \* ("crlf"), inside a two-byte character ("char")
    rd,             \* the closure state: decoder, buffer, dataLines, currentEvent,
                    \* and the records passed to onEvent so far
    \* ---- the Chat component
    messages,       \* useState: the transcript
    inputValue,     \* useState: the text of the input box
    sending,        \* useState
    error,          \* useState: null or the banner's value
    controllerRef,  \* the stream whose AbortController the ref holds, 0 for null
    hasStarted,     \* hasStartedAssistantRef.current
    pendingId,      \* pendingAssistantIdRef.current
    chunkQueue,     \* chunkQueueRef.current
    rafId,          \* rafIdRef.current, 0 for null
    pendingChunks,  \* pendingChunksRef.current
    frames,         \* the animation-frame callbacks the window has scheduled
    now,            \* the value Date.now() returns
    st,             \* per handleSend call: where its async body stands, and
                    \* what its stream has delivered so far
    sentinel,       \* history: the streams on which the done sentinel or an
                    \* error event of the server has been received (recorded
                    \* in SpecDone and SpecRefusal only)
    \* ---- toPlaceholderSpans applied to one message text
    tpInput,        \* the text (a string)
    tpChunks,       \* the chunks argument: undefined or an array of strings
    tpOut,          \* pending, or the string returned
    \* ---- normalizeStreamingMarkdown applied to one text, and to its result
    nmText,         \* the text (a string)
    nmOut,          \* pending, or the string returned
    nmAgain,        \* pending, or the string returned for nmOut's string
    \* ---- decorateChunkPlaceholders applied to one rendered message
    dcRoot,         \* the children of the root element before the call
    dcChunks,       \* the chunkTexts argument: undefined or an array of strings
    dcOut,          \* pending, or the children of the root after the call
    \* ---- the server: retrieval and prompt building for one chat request
    rgResp,         \* what the search service answers
    rgOut,          \* pending, or the chunk texts, the prompt's chunk block and
                    \* the events written to the client
    \* ---- the server: one /api/chat request in handleChat
    hcReq,          \* the request body, and the environment: is there a key
    hcPc,           \* where the handler stands: the await it is suspended at
    hcHow,          \* how the handler came to its end
    res,            \* the client response
    ctl,            \* the AbortController of the upstream request
    up              \* the upstream request: its state, the bytes still to
                    \* come and the bytes read so far

exVars == <<exData, exOut>>
sseVars == <<sseBody, ssePos, ssePc, sseLine, sseCuts, rd>>

progVars == <<messages, inputValue, sending, error, controllerRef, hasStarted,
              pendingId, chunkQueue, rafId, pendingChunks, frames, now>>
chatVars == <<progVars, st, sentinel>>
tpVars == <<tpInput, tpChunks, tpOut>>
nmVars == <<nmText, nmOut, nmAgain>>
dcVars == <<dcRoot, dcChunks, dcOut>>
mdVars == <<nmVars, dcVars>>
rgVars == <<rgResp, rgOut>>
hcVars == <<hcReq, hcPc, hcHow, res, ctl, up>>
srvVars == <<rgVars, hcVars>>

vars == <<exVars, sseVars, chatVars, tpVars, mdVars, srvVars>>

(***************************************************************************)
(* JSON text.  A payload is a sequence of lexical tokens; every token is a *)
(* record [k, v] with v a sequence of characters:                          *)
(*   k = "p"   punctuation  { } [ ] : ,                                    *)
(*   k = "str" a string literal with contents v                            *)
(*   k = "num" a number literal, k = "lit" one of null / true / false      *)
(*   k = "ws"  white space                                                 *)
(*   k = "bad" any other run of characters (a bare word such as DONE)      *)
(***************************************************************************)
P(c) == [k |-> "p", v |-> <<c>>]
StrTok(s) == [k |-> "str", v |-> s]
NumTok(c) == [k |-> "num", v |-> <<c>>]
LitTok(c) == [k |-> "lit", v |-> <<c>>]
WsTok == [k |-> "ws", v |-> <<" ">>]
BadTok(c) == [k |-> "bad", v |-> <<c>>]

\* The literal '[DONE]' of Chat.tsx line 118.
DoneSentinel == <<P("["), BadTok("DONE"), P("]")>>

(***************************************************************************)
(* JavaScript values as produced by JSON.parse, plus undefined.            *)
(* Every value is a record [t, s, keys, kids]:                             *)
(*   t = "undef" | "null" | "bool" | "num" | "str" | "arr" | "obj"         *)
(*   s    the characters of a string, number or boolean                    *)
(*   keys the property names of an object, in order                        *)
(*   kids the elements of an array / the property values of an object      *)
(***************************************************************************)
JVal(t, s, keys, kids) == [t |-> t, s |-> s, keys |-> keys, kids |-> kids]
JUndef == JVal("undef", <<>>, <<>>, <<>>)
JNull == JVal("null", <<>>, <<>>, <<>>)
JBool(c) == JVal("bool", <<c>>, <<>>, <<>>)
JNum(c) == JVal("num", <<c>>, <<>>, <<>>)
JStr(s) == JVal("str", s, <<>>, <<>>)
JArr(items) == JVal("arr", <<>>, <<>>, items)
JObj(keys, vals) == JVal("obj", <<>>, keys, vals)

\* JSON.parse: recursive descent over the tokens (white space skipped).
\* A parse result is [ok, v, i]: i is the position after the value.
ParseFail == [ok |-> FALSE, v |-> JUndef, i |-> 0]
ParseOk(v, i) == [ok |-> TRUE, v |-> v, i |-> i]

RECURSIVE ParseValue(_, _)
RECURSIVE ParseElements(_, _, _)
RECURSIVE ParseMembers(_, _, _, _)

ParseElements(toks, i, acc) ==
    LET r == ParseValue(toks, i) IN
    IF ~r.ok \/ r.i > Len(toks) THEN ParseFail
    ELSE IF toks[r.i] = P(",") THEN ParseElements(toks, r.i + 1, Append(acc, r.v))
    ELSE IF toks[r.i] = P("]") THEN ParseOk(JArr(Append(acc, r.v)), r.i + 1)
    ELSE ParseFail

ParseMembers(toks, i, keys, vals) ==
    IF i + 1 > Len(toks) \/ toks[i].k # "str" \/ toks[i + 1] # P(":") THEN ParseFail
    ELSE LET r == ParseValue(toks, i + 2) IN
         IF ~r.ok \/ r.i > Len(toks) THEN ParseFail
         ELSE IF toks[r.i] = P(",")
              THEN ParseMembers(toks, r.i + 1, Append(keys, toks[i].v), Append(vals, r.v))
         ELSE IF toks[r.i] = P("}")
              THEN ParseOk(JObj(Append(keys, toks[i].v), Append(vals, r.v)), r.i + 1)
         ELSE ParseFail

ParseValue(toks, i) ==
    IF i > Len(toks) THEN ParseFail
    ELSE LET t == toks[i] IN
         CASE t.k = "str" -> ParseOk(JStr(t.v), i + 1)
           [] t.k = "num" -> ParseOk(JNum(t.v[1]), i + 1)
           [] t.k = "lit" -> ParseOk(IF t.v = <<"null">> THEN JNull ELSE JBool(t.v[1]), i + 1)
           [] t = P("[") -> IF i + 1 <= Len(toks) /\ toks[i + 1] = P("]")
                            THEN ParseOk(JArr(<<>>), i + 2)
                            ELSE ParseElements(toks, i + 1, <<>>)
           [] t = P("{") -> IF i + 1 <= Len(toks) /\ toks[i + 1] = P("}")
                            THEN ParseOk(JObj(<<>>, <<>>), i + 2)
                            ELSE ParseMembers(toks, i + 1, <<>>, <<>>)
           [] OTHER -> ParseFail

\* JSON.parse(data): [ok |-> FALSE] stands for the SyntaxError it throws.
JSONParse(data) ==
    LET toks == SelectSeq(data, LAMBDA t : t.k # "ws")
        r == ParseValue(toks, 1)
    IN IF r.ok /\ r.i = Len(toks) + 1 THEN [ok |-> TRUE, v |-> r.v]
       ELSE [ok |-> FALSE, v |-> JUndef]

\* x?.key : undefined on null / undefined, the own property of an object
\* (the last one of that name, as JSON.parse keeps it), undefined otherwise.
RECURSIVE LastIndexOf(_, _, _)
LastIndexOf(keys, key, i) ==
    IF i = 0 THEN 0
    ELSE IF keys[i] = key THEN i ELSE LastIndexOf(keys, key, i - 1)

OptGet(x, key) ==
    IF x.t # "obj" THEN JUndef
    ELSE LET i == LastIndexOf(x.keys, key, Len(x.keys)) IN
         IF i = 0 THEN JUndef ELSE x.kids[i]

\* JavaScript truthiness of a value (for `a || b`).
Truthy(x) ==
    CASE x.t \in {"undef", "null"} -> FALSE
      [] x.t = "bool" -> x.s = <<"true">>
      [] x.t = "num" -> x.s # <<"0">>
      [] x.t = "str" -> x.s # <<>>
      [] OTHER -> TRUE

(***************************************************************************)
(* openaiConnector.extract.  The outcome is [kind, text]:                  *)
(*   "done" {done: true}   "text" {text}   "null" null   "throw" a throw   *)
(***************************************************************************)
ExOutcome(kind, text) == [kind |-> kind, text |-> text]

\* lines 123-127: concatenate every choice?.delta?.content that is a string
RECURSIVE ConcatContents(_)
ConcatContents(choices) ==
    IF choices = <<>> THEN <<>>
    ELSE LET part == OptGet(OptGet(Head(choices), <<"delta">>), <<"content">>) IN
         (IF part.t = "str" THEN part.s ELSE <<>>) \o ConcatContents(Tail(choices))

\* lines 120-129, the body of the try block; "throw" is JSON.parse's SyntaxError
ExtractTry(data) ==
    LET parsed == JSONParse(data) IN
    IF ~parsed.ok THEN ExOutcome("throw", <<>>)
    ELSE LET choices == OptGet(parsed.v, <<"choices">>) IN
         IF choices.t # "arr" THEN ExOutcome("null", <<>>)
         ELSE LET text == ConcatContents(choices.kids) IN
              IF text # <<>> THEN ExOutcome("text", text) ELSE ExOutcome("null", <<>>)

\* A slip the comment on line 131 warns against: non-JSON shown as model text.
ExtractLenient(data) ==
    IF data = DoneSentinel THEN ExOutcome("done", <<>>)
    ELSE LET r == ExtractTry(data) IN
         IF r.kind = "throw" THEN ExOutcome("text", <<"raw">>) ELSE r

\* lines 117-134
Extract(data) ==
    IF data = DoneSentinel THEN ExOutcome("done", <<>>)
    ELSE LET r == ExtractTry(data) IN
         IF r.kind = "throw" THEN ExOutcome("null", <<>>) ELSE r

(***************************************************************************)
(* readSSEStream.  Bytes are characters, except the two bytes C3 A9 of the *)
(* one two-byte character used here; LF and CR name the line terminators.  *)
(***************************************************************************)
LF == "LF"
CR == "CR"
SP == " "
Replacement == "FFFD"

DataPrefix == <<"d", "a", "t", "a", ":">>
EventPrefix == <<"e", "v", "e", "n", "t", ":">>
MessageName == <<"m", "e", "s", "s", "a", "g", "e">>

StartsWith(s, pre) == Len(s) >= Len(pre) /\ SubSeq(s, 1, Len(pre)) = pre
EndsWith(s, c) == s # <<>> /\ s[Len(s)] = c
Slice(s, n) == SubSeq(s, n + 1, Len(s))

\* TextDecoder.decode(value, {stream: true}) for UTF-8: an incomplete sequence
\* is withheld in `pend`; a malformed one decodes to U+FFFD.
RECURSIVE DecodeStream(_, _, _)
DecodeStream(pend, bytes, out) ==
    IF bytes = <<>> THEN [out |-> out, pend |-> pend]
    ELSE LET b == Head(bytes) IN
         IF pend # <<>>
         THEN IF b = "A9" THEN DecodeStream(<<>>, Tail(bytes), Append(out, "e'"))
              ELSE DecodeStream(<<>>, bytes, Append(out, Replacement))
         ELSE IF b = "C3" THEN DecodeStream(<<b>>, Tail(bytes), out)
         ELSE IF b = "A9" THEN DecodeStream(<<>>, Tail(bytes), Append(out, Replacement))
         ELSE DecodeStream(<<>>, Tail(bytes), Append(out, b))

\* decoder.decode() at the end of the stream
DecodeFlush(pend) == IF pend = <<>> THEN <<>> ELSE <<Replacement>>

\* queue.join(''): the strings of a list, concatenated
RECURSIVE Flatten(_)
Flatten(ss) == IF ss = <<>> THEN <<>> ELSE Head(ss) \o Flatten(Tail(ss))

\* dataLines.join('\n')
RECURSIVE JoinLines(_)
JoinLines(lines) ==
    IF lines = <<>> THEN <<>>
    ELSE IF Len(lines) = 1 THEN lines[1]
    ELSE lines[1] \o <<LF>> \o JoinLines(Tail(lines))

\* lines 145-147
RdInit ==
    [dec |-> <<>>, buffer |-> <<>>, dataLines |-> <<>>,
     currentEvent |-> MessageName, emitted |-> <<>>]

SseRecord(event, data) == [event |-> event, data |-> data]

\* A slip: the event is emitted even when no data line is pending.
FlushEventAlways(r) ==
    [r EXCEPT !.emitted = Append(@, SseRecord(IF r.currentEvent = <<>> THEN MessageName
                                                ELSE r.currentEvent,
                                                JoinLines(r.dataLines))),
              !.dataLines = <<>>,
              !.currentEvent = MessageName]

\* A slip: the pending data lines are forgotten instead of emitted.
FlushEventDrop(r) ==
    [r EXCEPT !.dataLines = <<>>, !.currentEvent = MessageName]

\* lines 149-154
FlushEvent(r) ==
    IF r.dataLines = <<>> THEN [r EXCEPT !.currentEvent = MessageName]
    ELSE [r EXCEPT !.emitted = Append(@, SseRecord(IF r.currentEvent = <<>> THEN MessageName
                                                     ELSE r.currentEvent,
                                                     JoinLines(r.dataLines))),
                   !.dataLines = <<>>,
                   !.currentEvent = MessageName]

\* A slip: every leading space of the value is taken off.
RECURSIVE FieldValueTrimmed(_, _)
FieldValueTrimmed(line, pre) ==
    LET value == Slice(line, Len(pre)) IN
    IF StartsWith(value, <<SP>>)
    THEN FieldValueTrimmed(pre \o Slice(value, 1), pre)
    ELSE value

\* lines 160-161 / 166-167: the value after the prefix, less one leading space
FieldValue(line, pre) ==
    LET value == Slice(line, Len(pre)) IN
    IF StartsWith(value, <<SP>>) THEN Slice(value, 1) ELSE value

\* lines 156-171
ProcessLine(r, rawLine) ==
    LET line == IF EndsWith(rawLine, CR) THEN SubSeq(rawLine, 1, Len(rawLine) - 1)
                ELSE rawLine
    IN IF line = <<>> THEN FlushEvent(r)
       ELSE IF StartsWith(line, EventPrefix)
            THEN LET value == FieldValue(line, EventPrefix) IN
                 [r EXCEPT !.currentEvent = IF value = <<>> THEN MessageName ELSE value]
       ELSE IF StartsWith(line, DataPrefix)
            THEN [r EXCEPT !.dataLines = Append(@, FieldValue(line, DataPrefix))]
       ELSE r

\* buffer.indexOf('\n'): 0 stands for -1, else the 1-based position
IndexOfLF(s) ==
    IF \E i \in 1..Len(s) : s[i] = LF
    THEN CHOOSE i \in 1..Len(s) : s[i] = LF /\ \A j \in 1..(i - 1) : s[j] # LF
    ELSE 0

\* lines 181-186: the inner while loop
RECURSIVE DrainLines(_)
DrainLines(r) ==
    LET idx == IndexOfLF(r.buffer) IN
    IF idx = 0 THEN r
    ELSE DrainLines(ProcessLine([r EXCEPT !.buffer = Slice(r.buffer, idx)],
                                SubSeq(r.buffer, 1, idx - 1)))

\* A slip: each read is split into lines on its own, nothing is carried over.
OnChunkNoCarry(r, bytes) ==
    LET d == DecodeStream(<<>>, bytes, <<>>)
        r1 == DrainLines([r EXCEPT !.buffer = d.out \o DecodeFlush(d.pend)])
    IN IF r1.buffer = <<>> THEN r1
       ELSE [ProcessLine(r1, r1.buffer) EXCEPT !.buffer = <<>>]

\* lines 179-186: one iteration of the read loop with a chunk `bytes`
OnChunk(r, bytes) ==
    LET d == DecodeStream(r.dec, bytes, <<>>) IN
    DrainLines([r EXCEPT !.dec = d.pend, !.buffer = r.buffer \o d.out])

\* A slip: the stream end resolves without the final flushEvent().
OnEndNoFlush(r) ==
    LET r1 == [r EXCEPT !.buffer = r.buffer \o DecodeFlush(r.dec), !.dec = <<>>] IN
    IF r1.buffer # <<>> THEN ProcessLine(r1, r1.buffer) ELSE r1

\* lines 188-190: after the loop
OnEnd(r) ==
    LET r1 == [r EXCEPT !.buffer = r.buffer \o DecodeFlush(r.dec), !.dec = <<>>]
        r2 == IF r1.buffer # <<>> THEN ProcessLine(r1, r1.buffer) ELSE r1
    IN FlushEvent(r2)

(***************************************************************************)
(* Payloads offered to extract: serialised JSON values of the delta        *)
(* protocol and near misses of it, truncated frames, and non-JSON text.    *)
(***************************************************************************)
\* JSON.stringify as the server applies it to a payload (writeSSEJson).
RECURSIVE Stringify(_)
RECURSIVE StringifyItems(_)
RECURSIVE StringifyMembers(_, _)

StringifyItems(items) ==
    IF items = <<>> THEN <<>>
    ELSE Stringify(Head(items))
         \o (IF Len(items) > 1 THEN <<P(",")>> ELSE <<>>)
         \o StringifyItems(Tail(items))

StringifyMembers(keys, vals) ==
    IF keys = <<>> THEN <<>>
    ELSE <<StrTok(Head(keys)), P(":")>> \o Stringify(Head(vals))
         \o (IF Len(keys) > 1 THEN <<P(",")>> ELSE <<>>)
         \o StringifyMembers(Tail(keys), Tail(vals))

Stringify(x) ==
    CASE x.t = "str" -> <<StrTok(x.s)>>
      [] x.t = "num" -> <<NumTok(x.s[1])>>
      [] x.t = "bool" -> <<LitTok(x.s[1])>>
      [] x.t = "arr" -> <<P("[")>> \o StringifyItems(x.kids) \o <<P("]")>>
      [] x.t = "obj" -> <<P("{")>> \o StringifyMembers(x.keys, x.kids) \o <<P("}")>>
      [] OTHER -> <<LitTok("null")>>

Obj1(key, val) == JObj(<<<<key>>>>, <<val>>)

SampleLeaves ==
    {JNull, JNum("5"), JNum("0"), JBool("true"), JStr(<<>>), JStr(<<"a">>), JStr(<<"b">>)}

SampleDeltas ==
    {Obj1("content", c) : c \in {JStr(<<"a">>), JStr(<<"b">>), JStr(<<>>), JNull, JNum("5")}}
    \cup {Obj1("role", JStr(<<"assistant">>)), JObj(<<>>, <<>>), JNull, JStr(<<"a">>)}

SampleChoices ==
    {Obj1("delta", d) : d \in SampleDeltas} \cup {JNull, JNum("5"), JObj(<<>>, <<>>)}

\* choices arrays of at most MaxChoices elements
MaxChoices == 2

SampleChoiceArrays ==
    UNION {[1..n -> SampleChoices] : n \in 0..MaxChoices}

SampleJson ==
    SampleLeaves
    \cup {Obj1("choices", JArr(a)) : a \in SampleChoiceArrays}
    \cup {Obj1("choices", x) : x \in SampleLeaves \cup {Obj1("delta", Obj1("content", JStr(<<"a">>)))}}
    \cup {JArr(a) : a \in {b \in SampleChoiceArrays : Len(b) <= 1}}
    \cup {JObj(<<<<"id">>, <<"choices">>>>, <<JStr(<<"a">>), JArr(<<c>>)>>) : c \in SampleChoices}
    \cup {JObj(<<<<"choices">>, <<"choices">>>>, <<JArr(<<c>>), JNull>>) : c \in SampleChoices}
    \cup {Obj1("delta", Obj1("content", JStr(<<"a">>))),
          Obj1("content", JStr(<<"a">>)),
          Obj1("error", JStr(<<"Missing key">>)),
          Obj1("chunks", JArr(<<JStr(<<"a">>)>>)),
          JObj(<<>>, <<>>)}

Prefixes(s) == {SubSeq(s, 1, n) : n \in 0..(Len(s) - 1)}

ExtractInputs ==
    {Stringify(x) : x \in SampleJson}
    \cup UNION {Prefixes(Stringify(Obj1("choices", JArr(<<c>>)))) : c \in SampleChoices}
    \cup {<<WsTok>> \o Stringify(x) : x \in SampleLeaves}
    \cup {DoneSentinel,
          <<WsTok>> \o DoneSentinel,
          DoneSentinel \o <<WsTok>>,
          <<BadTok("DONE")>>,
          <<P("["), BadTok("DONE")>>,
          <<BadTok("hello")>>,
          <<StrTok(<<"a">>), StrTok(<<"b">>)>>,
          Stringify(JObj(<<>>, <<>>)) \o <<P("}")>>}

ExPending == ExOutcome("pending", <<>>)

ExIdle ==
    /\ exData = <<>>
    /\ exOut = ExPending

TpPending == [done |-> FALSE, text |-> <<>>]
TpReturned(text) == [done |-> TRUE, text |-> text]

NmIdle ==
    /\ nmText = <<>>
    /\ nmOut = TpPending
    /\ nmAgain = TpPending

DcPending == [done |-> FALSE, root |-> <<>>]
DcReturned(root) == [done |-> TRUE, root |-> root]

DcIdle ==
    /\ dcRoot = <<>>
    /\ dcChunks = JUndef
    /\ dcOut = DcPending

RgPending == [done |-> FALSE, chunkTexts |-> <<>>, chunkBlock |-> <<>>, written |-> <<>>]

RgIdle ==
    /\ rgResp = [kind |-> "throw", json |-> JUndef]
    /\ rgOut = RgPending

ResInit == [sse |-> FALSE, headersSent |-> FALSE, ended |-> FALSE, closed |-> FALSE,
            finished |-> FALSE, late |-> FALSE, out |-> <<>>]
CtlInit == [made |-> FALSE, listening |-> FALSE, aborted |-> FALSE]
UpInit(body) == [st |-> "none", rest |-> body, reads |-> <<>>]

HcIdle ==
    /\ hcReq = [body |-> JUndef, key |-> FALSE]
    /\ hcPc = "unused"
    /\ hcHow = "none"
    /\ res = ResInit
    /\ ctl = CtlInit
    /\ up = UpInit(<<>>)

SrvIdle == RgIdle /\ HcIdle

MdIdle == NmIdle /\ DcIdle

TpIdle ==
    /\ tpInput = <<>>
    /\ tpChunks = JUndef
    /\ tpOut = TpPending
    /\ MdIdle
    /\ SrvIdle

SseIdle ==
    /\ sseBody = <<>>
    /\ ssePos = 0
    /\ ssePc = "resolved"
    /\ sseLine = <<>>
    /\ sseCuts = {}
    /\ rd = RdInit

(***************************************************************************)
(* The Chat component.                                                     *)
(***************************************************************************)
\* at most MaxSends calls of handleSend get past its guards
MaxSends == 2
\* at most MaxFrags text fragments are extracted, over all streams
MaxFrags == 3

Streams == 1..MaxSends

\* Date.now() is read from a clock that never runs backwards: a call returns
\* the value of the previous call or the next one
MaxClock == MaxSends
DateNow == {t \in {now, now + 1} : t <= MaxClock}

\* message identifiers: Date.now().toString() and 'assistant-' + Date.now()
UserId(t) == [p |-> "", t |-> t]
AssistantId(t) == [p |-> "assistant-", t |-> t]
NoId == [p |-> "null", t |-> 0]

Msg(id, role, content, chunks) ==
    [id |-> id, role |-> role, content |-> content, chunks |-> chunks]

RetrievedChunksName ==
    <<"r", "e", "t", "r", "i", "e", "v", "e", "d", "_", "c", "h", "u", "n", "k", "s">>
ErrorName == <<"e", "r", "r", "o", "r">>

ServerError == JStr(<<"Server error">>)
FailedToSend == JStr(<<"Failed to send message. Please make sure the server is running.">>)

\* String.prototype.trim on the input text
RECURSIVE TrimStart(_)
TrimStart(s) == IF s # <<>> /\ Head(s) = SP THEN TrimStart(Tail(s)) ELSE s
RECURSIVE TrimEnd(_)
TrimEnd(s) == IF EndsWith(s, SP) THEN TrimEnd(SubSeq(s, 1, Len(s) - 1)) ELSE s
Trim(s) == TrimEnd(TrimStart(s))

InputTexts == {<<>>, <<SP, "q">>}

\* the position of a handleSend call's async body
Active == {"fetch", "read", "aborting"}
\* frags: the fragments extracted from the stream so far; msg: the position in
\* the transcript of the assistant message the stream created (0: none yet)
StInit == [pc |-> "unused", frags |-> <<>>, msg |-> 0]

ChatInit ==
    /\ messages = <<>>
    /\ inputValue = <<>>
    /\ sending = FALSE
    /\ error = JNull
    /\ controllerRef = 0
    /\ hasStarted = FALSE
    /\ pendingId = NoId
    /\ chunkQueue = <<>>
    /\ rafId = 0
    /\ pendingChunks = JNull
    /\ frames = {}
    /\ now = 0
    /\ st = [k \in Streams |-> StInit]
    /\ sentinel = {}

\* The events a stream may deliver (records as readSSEStream emits them, the
\* data kept as JSON tokens).
Delta(text) == Obj1("choices", JArr(<<Obj1("delta", Obj1("content", JStr(text)))>>))
Evt(name, data) == [event |-> name, data |-> data]

\* The text of the n-th fragment a server sends is the n-th letter, so that
\* loss, duplication and reordering all show in the transcript.
Letters == <<"a", "b", "c", "d", "e", "f", "g", "h">>

DeltaEvents(n) ==
    {Evt(MessageName, Stringify(Delta(<<Letters[n]>>))),
     Evt(<<"p", "i", "n", "g">>, Stringify(Delta(<<Letters[n]>>)))}

\* message events that carry no text
SilentEvents ==
    {Evt(MessageName, Stringify(Obj1("choices", JArr(<<Obj1("delta", Obj1("role", JStr(<<"assistant">>)))>>)))),
     Evt(MessageName, DoneSentinel),
     Evt(MessageName, <<BadTok("hello")>>),
     Evt(MessageName, <<StrTok(<<"x">>)>>),
     Evt(MessageName, Stringify(Obj1("text", JStr(<<"x">>))))}

ChunkEvents ==
    {Evt(RetrievedChunksName, Stringify(Obj1("chunks", JArr(<<JStr(<<"s1">>)>>)))),
     Evt(RetrievedChunksName, Stringify(Obj1("chunks", JArr(<<JStr(<<"s2">>), JStr(<<"s3">>)>>)))),
     Evt(RetrievedChunksName, Stringify(Obj1("chunks", JStr(<<"s1">>)))),
     Evt(RetrievedChunksName, <<P("{")>>)}

ErrorEvents ==
    {Evt(ErrorName, Stringify(Obj1("error", JStr(<<"Missing key">>)))),
     Evt(ErrorName, Stringify(Obj1("error", JStr(<<>>)))),
     Evt(ErrorName, <<BadTok("oops")>>)}

\* deltas whose string contents concatenate to the empty string: a role-only
\* delta, an empty choices array, a content that is not a string, an empty
\* content
EmptyDeltaEvents ==
    {Evt(MessageName, Stringify(Obj1("choices", JArr(<<Obj1("delta", Obj1("role", JStr(<<"assistant">>)))>>)))),
     Evt(MessageName, Stringify(Obj1("choices", JArr(<<>>)))),
     Evt(MessageName, Stringify(Obj1("choices", JArr(<<Obj1("delta", Obj1("content", JNum("5")))>>)))),
     Evt(MessageName, Stringify(Obj1("choices", JArr(<<Obj1("delta", Obj1("content", JStr(<<>>)))>>))))}

\* server/index.ts line 200: the payload of handleBadUpstream's error event,
\* for an upstream answer of status 500 with an empty text
UpstreamErrorBody ==
    JObj(<< <<"error">>, <<"status">>, <<"details">> >>,
         <<JStr(<<"Upstream error">>), JNum("500"), JStr(<<>>)>>)

\* the error events the /api/chat handler writes (server/index.ts lines 150,
\* 200 and 291)
ServerErrorEvents ==
    {Evt(ErrorName, Stringify(Obj1("error", JStr(<<text>>)))) :
        text \in {"Missing OPENAI_API_KEY on server", "Internal server error"}}
    \cup {Evt(ErrorName, Stringify(UpstreamErrorBody))}

OtherEvents ==
    SilentEvents \cup ChunkEvents \cup ErrorEvents \cup EmptyDeltaEvents \cup ServerErrorEvents

\* prev.map(m => m.id === assistantId ? {...m, content: m.content + toAppend} : m)
AppendTo(msgs, id, toAppend) ==
    [i \in 1..Len(msgs) |->
        IF msgs[i].id = id THEN [msgs[i] EXCEPT !.content = @ \o toAppend] ELSE msgs[i]]

\* prev.map(m => m.id === assistantId ? {...m, chunks} : m)
SetChunks(msgs, id, chunks) ==
    [i \in 1..Len(msgs) |->
        IF msgs[i].id = id THEN [msgs[i] EXCEPT !.chunks = chunks] ELSE msgs[i]]

\* window.requestAnimationFrame returns a handle not in use
FreshHandle ==
    CHOOSE h \in 1..(Cardinality(frames) + 2) :
        /\ h \notin frames \cup {rafId}
        /\ \A g \in 1..(h - 1) : g \in frames \cup {rafId}

\* A slip: the message is created without the chunks received before it.
AppendAssistantTokenNoChunks(chunk) ==
    IF chunk = <<>> THEN UNCHANGED progVars
    ELSE IF ~hasStarted
    THEN /\ now' \in DateNow
         /\ pendingId' = AssistantId(now')
         /\ hasStarted' = TRUE
         /\ chunkQueue' = <<>>
         /\ messages' = Append(messages, Msg(AssistantId(now'), "assistant", chunk, JUndef))
         /\ pendingChunks' = JNull
         /\ UNCHANGED <<inputValue, sending, error, controllerRef, rafId, frames>>
    ELSE /\ chunkQueue' = Append(chunkQueue, chunk)
         /\ IF rafId = 0
            THEN /\ rafId' = FreshHandle
                 /\ frames' = frames \cup {FreshHandle}
            ELSE UNCHANGED <<rafId, frames>>
         /\ UNCHANGED <<messages, inputValue, sending, error, controllerRef, hasStarted,
                        pendingId, pendingChunks, now>>

\* A slip: the guard on the empty fragment is left out.
AppendAssistantTokenAnyChunk(chunk) ==
    IF ~hasStarted
    THEN /\ now' \in DateNow
         /\ pendingId' = AssistantId(now')
         /\ hasStarted' = TRUE
         /\ chunkQueue' = <<>>
         /\ messages' = Append(messages,
                               Msg(AssistantId(now'), "assistant", chunk,
                                   IF Truthy(pendingChunks) THEN pendingChunks ELSE JUndef))
         /\ pendingChunks' = JNull
         /\ UNCHANGED <<inputValue, sending, error, controllerRef, rafId, frames>>
    ELSE /\ chunkQueue' = Append(chunkQueue, chunk)
         /\ IF rafId = 0
            THEN /\ rafId' = FreshHandle
                 /\ frames' = frames \cup {FreshHandle}
            ELSE UNCHANGED <<rafId, frames>>
         /\ UNCHANGED <<messages, inputValue, sending, error, controllerRef, hasStarted,
                        pendingId, pendingChunks, now>>

\* lines 218-243
AppendAssistantToken(chunk) ==
    IF chunk = <<>> THEN UNCHANGED progVars
    ELSE IF ~hasStarted
    THEN /\ now' \in DateNow
         /\ pendingId' = AssistantId(now')
         /\ hasStarted' = TRUE
         /\ chunkQueue' = <<>>
         /\ messages' = Append(messages,
                               Msg(AssistantId(now'), "assistant", chunk,
                                   IF Truthy(pendingChunks) THEN pendingChunks ELSE JUndef))
         /\ pendingChunks' = JNull
         /\ UNCHANGED <<inputValue, sending, error, controllerRef, rafId, frames>>
    ELSE /\ chunkQueue' = Append(chunkQueue, chunk)
         /\ IF rafId = 0
            THEN /\ rafId' = FreshHandle
                 /\ frames' = frames \cup {FreshHandle}
            ELSE UNCHANGED <<rafId, frames>>
         /\ UNCHANGED <<messages, inputValue, sending, error, controllerRef, hasStarted,
                        pendingId, pendingChunks, now>>

\* A slip: the callback appends the queue but does not empty it.
FrameCallbackKeepQueue ==
    /\ rafId' = 0
    /\ IF pendingId = NoId \/ chunkQueue = <<>>
       THEN UNCHANGED <<messages, chunkQueue>>
       ELSE /\ messages' = AppendTo(messages, pendingId, Flatten(chunkQueue))
            /\ UNCHANGED chunkQueue

\* A slip: the callback leaves its handle in rafIdRef.
FrameCallbackKeepHandle ==
    /\ rafId' = rafId
    /\ IF pendingId = NoId \/ chunkQueue = <<>>
       THEN UNCHANGED <<messages, chunkQueue>>
       ELSE /\ messages' = AppendTo(messages, pendingId, Flatten(chunkQueue))
            /\ chunkQueue' = <<>>

\* lines 232-240: the body of the animation-frame callback
FrameCallback ==
    /\ rafId' = 0
    /\ IF pendingId = NoId \/ chunkQueue = <<>>
       THEN UNCHANGED <<messages, chunkQueue>>
       ELSE /\ messages' = AppendTo(messages, pendingId, Flatten(chunkQueue))
            /\ chunkQueue' = <<>>

\* A slip: the stream is finalized without cancelling the scheduled callback
\* and without the synchronous flush.
FinalizeWithoutFlush ==
    /\ hasStarted' = FALSE
    /\ pendingId' = NoId
    /\ sending' = FALSE
    /\ UNCHANGED <<messages, chunkQueue, rafId, frames, inputValue, error,
                   controllerRef, pendingChunks, now>>

\* A slip: the stream is finalized but the loading state is not left.
FlushKeepSending ==
    /\ frames' = IF rafId # 0 THEN frames \ {rafId} ELSE frames
    /\ rafId' = 0
    /\ IF pendingId # NoId /\ chunkQueue # <<>>
       THEN /\ messages' = AppendTo(messages, pendingId, Flatten(chunkQueue))
            /\ chunkQueue' = <<>>
       ELSE UNCHANGED <<messages, chunkQueue>>
    /\ hasStarted' = FALSE
    /\ pendingId' = NoId
    /\ UNCHANGED <<sending, inputValue, error, controllerRef, pendingChunks, now>>

\* lines 245-260
FlushAndFinalizeAssistant ==
    /\ frames' = IF rafId # 0 THEN frames \ {rafId} ELSE frames
    /\ rafId' = 0
    /\ IF pendingId # NoId /\ chunkQueue # <<>>
       THEN /\ messages' = AppendTo(messages, pendingId, Flatten(chunkQueue))
            /\ chunkQueue' = <<>>
       ELSE UNCHANGED <<messages, chunkQueue>>
    /\ hasStarted' = FALSE
    /\ pendingId' = NoId
    /\ sending' = FALSE
    /\ UNCHANGED <<inputValue, error, controllerRef, pendingChunks, now>>

\* No rejected await is waiting for its catch handler to run (a microtask,
\* which runs before any other task).
Quiescent == \A k \in Streams : st[k].pc # "aborting"

\* controller.abort(): the pending fetch / read of that stream rejects
Abort(s, c) ==
    IF c # 0 /\ s[c].pc \in {"fetch", "read"} THEN [s EXCEPT ![c].pc = "aborting"] ELSE s

\* onChange of the input box (disabled while sending); typing is followed
\* up to the last send
SetInput(v) ==
    /\ Quiescent
    /\ ~sending
    /\ \E k \in Streams : st[k].pc = "unused"
    /\ v # inputValue
    /\ inputValue' = v
    /\ UNCHANGED <<messages, sending, error, controllerRef, hasStarted, pendingId,
                   chunkQueue, rafId, pendingChunks, frames, now, st, exVars, sseVars, tpVars, mdVars, srvVars, sentinel>>

\* lines 264-286: handleSend up to its first await
HandleSend(k) ==
    /\ Quiescent
    /\ ~sending
    /\ Trim(inputValue) # <<>>
    /\ st[k].pc = "unused"
    /\ \A j \in 1..(k - 1) : st[j].pc # "unused"
    /\ error' = JNull
    /\ inputValue' = <<>>
    /\ st' = [Abort(st, controllerRef) EXCEPT ![k].pc = "fetch"]
    /\ controllerRef' = k
    /\ hasStarted' = FALSE
    /\ pendingId' = NoId
    /\ chunkQueue' = <<>>
    /\ pendingChunks' = JNull
    /\ now' \in DateNow
    /\ messages' = Append(messages, Msg(UserId(now'), "user", Trim(inputValue), JUndef))
    /\ sending' = TRUE
    /\ UNCHANGED <<rafId, frames, exVars, sseVars, tpVars, mdVars, srvVars, sentinel>>

\* line 335: handleStop
HandleStop ==
    /\ Quiescent
    /\ sending
    /\ Abort(st, controllerRef) # st
    /\ st' = Abort(st, controllerRef)
    /\ UNCHANGED <<progVars, exVars, sseVars, tpVars, mdVars, srvVars, sentinel>>

\* lines 286-287: the transport resolves with an ok response that has a body
FetchOk(k) ==
    /\ Quiescent
    /\ st[k].pc = "fetch"
    /\ st' = [st EXCEPT ![k].pc = "read"]
    /\ UNCHANGED <<progVars, exVars, sseVars, tpVars, mdVars, srvVars, sentinel>>

\* JSON.parse(evt.data) and openaiConnector.extract(evt.data) for the events
\* above, computed once
AllEvents == OtherEvents \cup UNION {DeltaEvents(n) : n \in 1..Len(Letters)}
ParsedData == [evt \in AllEvents |-> JSONParse(evt.data)]
ExtractedData == [evt \in AllEvents |-> Extract(evt.data)]

\* lines 290-303: the retrieved_chunks branch of the onEvent callback
OnRetrievedChunks(evt) ==
    LET parsed == ParsedData[evt]
        chunks == OptGet(parsed.v, <<"chunks">>)
    IN IF parsed.ok /\ chunks.t = "arr"
       THEN IF hasStarted /\ pendingId # NoId
            THEN /\ messages' = SetChunks(messages, pendingId, chunks)
                 /\ UNCHANGED <<inputValue, sending, error, controllerRef, hasStarted,
                                pendingId, chunkQueue, rafId, pendingChunks, frames, now>>
            ELSE /\ pendingChunks' = chunks
                 /\ UNCHANGED <<messages, inputValue, sending, error, controllerRef,
                                hasStarted, pendingId, chunkQueue, rafId, frames, now>>
       ELSE UNCHANGED progVars

\* lines 305-313: the error branch of the onEvent callback
OnErrorEvent(evt) ==
    LET parsed == ParsedData[evt]
        err == OptGet(parsed.v, <<"error">>)
    IN /\ error' = IF parsed.ok /\ Truthy(err) THEN err ELSE ServerError
       /\ UNCHANGED <<messages, inputValue, sending, controllerRef, hasStarted, pendingId,
                      chunkQueue, rafId, pendingChunks, frames, now>>

\* the number of fragments extracted so far, over all streams
RECURSIVE SumFrags(_)
SumFrags(k) == IF k = 0 THEN 0 ELSE Len(st[k].frags) + SumFrags(k - 1)
TotalFrags == SumFrags(MaxSends)

\* lines 315-320: every other event is treated as an OpenAI delta
FragmentOf(evt) ==
    LET out == ExtractedData[evt] IN
    IF evt.event \in {RetrievedChunksName, ErrorName} \/ out.kind # "text" THEN <<>>
    ELSE out.text

\* the events a stream may deliver next, besides those of `menu`
NextDeltas == DeltaEvents(TotalFrags + 1)

\* lines 289-321: readSSEStream hands one record to the onEvent callback
OnEvent(k, evt) ==
    /\ Quiescent
    /\ st[k].pc = "read"
    /\ FragmentOf(evt) # <<>> => TotalFrags < MaxFrags
    /\ IF evt.event = RetrievedChunksName THEN OnRetrievedChunks(evt)
       ELSE IF evt.event = ErrorName THEN OnErrorEvent(evt)
       ELSE AppendAssistantToken(FragmentOf(evt))
    /\ st' = [st EXCEPT ![k].frags = @ \o FragmentOf(evt),
                        ![k].msg = IF @ = 0 /\ Len(messages') > Len(messages)
                                   THEN Len(messages') ELSE @]
    /\ UNCHANGED <<exVars, sseVars, tpVars, mdVars, srvVars>>

\* the window runs the animation-frame callback with handle h
FrameFire(h) ==
    /\ Quiescent
    /\ h \in frames
    /\ frames' = frames \ {h}
    /\ FrameCallback
    /\ UNCHANGED <<inputValue, sending, error, controllerRef, hasStarted, pendingId,
                   pendingChunks, now, st, exVars, sseVars, tpVars, mdVars, srvVars, sentinel>>

\* lines 289, 323: readSSEStream resolves, the stream is finalized
StreamEnd(k) ==
    /\ Quiescent
    /\ st[k].pc = "read"
    /\ FlushAndFinalizeAssistant
    /\ st' = [st EXCEPT ![k].pc = "completed"]
    /\ UNCHANGED <<exVars, sseVars, tpVars, mdVars, srvVars, sentinel>>

\* A slip: the AbortError is handled like any other failure.
CatchAbortAsFailure(k) ==
    /\ st[k].pc = "aborting"
    /\ error' = FailedToSend
    /\ sending' = FALSE
    /\ st' = [st EXCEPT ![k].pc = "cancelled"]
    /\ UNCHANGED <<messages, inputValue, controllerRef, hasStarted, pendingId,
                   chunkQueue, rafId, pendingChunks, frames, now, exVars, sseVars, tpVars, mdVars, srvVars, sentinel>>

\* lines 324-328: the rejected await throws an AbortError into the catch block
CatchAbort(k) ==
    /\ st[k].pc = "aborting"
    /\ FlushAndFinalizeAssistant
    /\ st' = [st EXCEPT ![k].pc = "cancelled"]
    /\ UNCHANGED <<exVars, sseVars, tpVars, mdVars, srvVars, sentinel>>

\* A slip: the failure handler takes the partial answer out of the transcript.
StreamFailRollback(k) ==
    /\ Quiescent
    /\ st[k].pc \in {"fetch", "read"}
    /\ error' = FailedToSend
    /\ sending' = FALSE
    /\ messages' = SelectSeq(messages, LAMBDA m : m.id # pendingId)
    /\ st' = [st EXCEPT ![k].pc = "failed"]
    /\ UNCHANGED <<inputValue, controllerRef, hasStarted, pendingId,
                   chunkQueue, rafId, pendingChunks, frames, now, exVars, sseVars, tpVars, mdVars, srvVars, sentinel>>

\* lines 286-287, 324, 329-331: the transport rejects, the response is not ok or
\* has no body, or a read fails: the generic branch of the catch block
StreamFail(k) ==
    /\ Quiescent
    /\ st[k].pc \in {"fetch", "read"}
    /\ error' = FailedToSend
    /\ sending' = FALSE
    /\ st' = [st EXCEPT ![k].pc = "failed"]
    /\ UNCHANGED <<messages, inputValue, controllerRef, hasStarted, pendingId,
                   chunkQueue, rafId, pendingChunks, frames, now, exVars, sseVars, tpVars, mdVars, srvVars, sentinel>>

\* line 118: the record that carries the done sentinel
DoneEvent == Evt(MessageName, DoneSentinel)

\* the records after which a server sends no more text
Terminal == {DoneEvent} \cup ServerErrorEvents

\* the callback runs for one record; with `track` the history of terminal
\* records is kept
Received(k, evt, track) ==
    /\ OnEvent(k, evt)
    /\ sentinel' = IF track /\ evt \in Terminal THEN sentinel \cup {k} ELSE sentinel

\* the steps of the component when streams deliver events of `menu` and text;
\* with `last` a stream delivers nothing after a recorded terminal record (the
\* server has ended the response)
ChatSteps(menu, track, last) ==
    \/ \E v \in InputTexts : SetInput(v)
    \/ \E k \in Streams : HandleSend(k)
    \/ HandleStop
    \/ \E k \in Streams : FetchOk(k)
    \/ \E k \in Streams, evt \in menu \cup NextDeltas :
          (last => k \notin sentinel) /\ Received(k, evt, track)
    \/ \E h \in frames : FrameFire(h)
    \/ \E k \in Streams : StreamEnd(k)
    \/ \E k \in Streams : CatchAbort(k)
    \/ \E k \in Streams : StreamFail(k)

\* the same steps, without the history
ChatNext(menu) == ChatSteps(menu, FALSE, FALSE)

Init == ChatInit /\ ExIdle /\ SseIdle /\ TpIdle

\* streams that deliver text, silent events and error events
Next == ChatNext(SilentEvents \cup ErrorEvents)
Spec == Init /\ [][Next]_vars

\* streams that deliver text, silent events and retrieved_chunks events
SpecChunks == Init /\ [][ChatNext(SilentEvents \cup ChunkEvents)]_vars

\* Spec for responses that end: a pending request or body does not stay
\* pending for ever (it ends or fails), and the catch handler of a rejected
\* await runs
\* streams that deliver text and silent events, the done sentinel among them,
\* with the history of sentinels kept
SpecDone == Init /\ [][ChatSteps(SilentEvents, TRUE, FALSE)]_vars

\* streams that deliver text and deltas without text
SpecEmpty == Init /\ [][ChatNext(EmptyDeltaEvents)]_vars

SpecLive ==
    /\ Spec
    /\ \A k \in Streams : WF_vars(StreamEnd(k) \/ StreamFail(k))
    /\ \A k \in Streams : WF_vars(CatchAbort(k))

(***************************************************************************)
(* Properties of the aggregation of text fragments.                        *)
(***************************************************************************)
\* the content of the assistant message that stream k created
ContentOf(msgs, k) == msgs[st[k].msg].content

\* C1  While a stream is active, the content of its assistant message followed
\* by the queued fragments, in queue order, is the concatenation in arrival
\* order of the non-empty fragments extracted from the stream so far; at the
\* step where the stream completes normally the content alone is that
\* concatenation.
C1_FragmentsPreserved ==
    /\ [](\A k \in Streams :
            st[k].pc \in Active /\ st[k].msg # 0 =>
                ContentOf(messages, k) \o Flatten(chunkQueue) = st[k].frags)
    /\ [][\A k \in Streams :
            st[k].pc = "read" /\ st'[k].pc = "completed" /\ st[k].msg # 0 =>
                ContentOf(messages', k) = st'[k].frags]_vars

\* a stream is reading, part of its text is in the message and part is queued
C1_Witness ==
    \E k \in Streams :
        /\ st[k].pc = "read"
        /\ st[k].msg # 0
        /\ Len(ContentOf(messages, k)) >= 2
        /\ chunkQueue # <<>>

\* C2  After the user has cancelled a stream, the content of its assistant
\* message is the concatenation of the fragments extracted before the abort,
\* and stays so in every later state.
C2_CancelledContentFixed ==
    \A k \in Streams :
        st[k].pc = "cancelled" /\ st[k].msg # 0 =>
            ContentOf(messages, k) = st[k].frags

\* C3  At the step where a stream is finalized, by normal completion or by
\* cancellation, sending becomes false, the queue is empty, no animation-frame
\* callback remains scheduled and the message holds every extracted fragment.
C3_FlushedBeforeInactive ==
    [][\A k \in Streams :
          st[k].pc \in Active /\ st'[k].pc \in {"completed", "cancelled"} =>
              /\ ~sending'
              /\ chunkQueue' = <<>>
              /\ frames' = {}
              /\ rafId' = 0
              /\ st[k].msg # 0 => ContentOf(messages', k) = st[k].frags]_vars

\* a stream that extracted several fragments was cancelled and is inactive
C3_Witness ==
    \E k \in Streams :
        /\ st[k].pc = "cancelled"
        /\ controllerRef = k
        /\ ~sending
        /\ chunkQueue = <<>>
        /\ frames = {}
        /\ Len(st[k].frags) >= 2
        /\ ContentOf(messages, k) = st[k].frags

AtMostOneActive == Cardinality({k \in Streams : st[k].pc \in Active}) <= 1

ErrorPayload(evt) == OptGet(ParsedData[evt].v, <<"error">>)

\* C5  An error event whose payload is {error: E}, E a non-empty string, sets
\* the displayed error to E; and once an error is displayed no event of the
\* stream changes the transcript or queues text for it.
C5_ErrorEventTerminal ==
    [][\A k \in Streams, evt \in SilentEvents \cup ErrorEvents \cup NextDeltas :
          OnEvent(k, evt) =>
              /\ (/\ evt.event = ErrorName
                  /\ ParsedData[evt].ok
                  /\ ErrorPayload(evt).t = "str"
                  /\ ErrorPayload(evt).s # <<>>) => error' = ErrorPayload(evt)
              /\ error # JNull => messages' = messages /\ chunkQueue' = chunkQueue]_vars

\* C6  Cancelling a stream is not reported as an error: an empty error banner
\* is still empty when the controller has been aborted and when the aborted
\* stream has been finalized, and finalizing it sets sending to false.
C6_CancelNotError ==
    [][\A k \in Streams :
          /\ st[k].pc \in {"fetch", "read"} /\ st'[k].pc = "aborting" =>
                (error = JNull => error' = JNull)
          /\ st[k].pc = "aborting" /\ st'[k] # st[k] =>
                /\ st'[k].pc = "cancelled"
                /\ error = JNull => error' = JNull
                /\ ~sending']_vars

\* the last stream received text, was cancelled, and no error is displayed
C6_Witness ==
    \E k \in Streams :
        /\ st[k].pc = "cancelled"
        /\ controllerRef = k
        /\ st[k].msg # 0
        /\ error = JNull
        /\ ~sending

\* the payload parses as JSON to an object whose choices array has an element
\* with a non-empty string at delta.content
DeltaShaped(evt) ==
    LET choices == OptGet(ParsedData[evt].v, <<"choices">>) IN
    /\ ParsedData[evt].ok
    /\ choices.t = "arr"
    /\ \E i \in 1..Len(choices.kids) :
          Truthy(OptGet(OptGet(choices.kids[i], <<"delta">>), <<"content">>))
            /\ OptGet(OptGet(choices.kids[i], <<"delta">>), <<"content">>).t = "str"

\* the message events of the model whose payload is not of that shape
NonConforming == {evt \in AllEvents : evt.event = MessageName /\ ~DeltaShaped(evt)}

\* C11  A message event whose payload does not parse as JSON or is not
\* delta-shaped changes neither the transcript, nor the queued text, nor the
\* displayed error, and the stream goes on being read.
C11_NonConformingIgnored ==
    [][\A k \in Streams, evt \in NonConforming :
          st[k].pc = "read" /\ OnEvent(k, evt) =>
              /\ messages' = messages
              /\ chunkQueue' = chunkQueue
              /\ error' = error
              /\ sending' = sending
              /\ st'[k].pc = "read"]_vars

\* a stream whose message holds text, with more text queued and no error
\* displayed, is handed a payload that is not JSON
C11_Witness ==
    \E k \in Streams :
        /\ st[k].pc = "read"
        /\ st[k].msg # 0
        /\ chunkQueue # <<>>
        /\ error = JNull
        /\ ENABLED OnEvent(k, Evt(MessageName, <<BadTok("hello")>>))

(***************************************************************************)
(* Properties of failing streams.                                          *)
(***************************************************************************)
IsPrefix(s, t) == Len(s) <= Len(t) /\ SubSeq(t, 1, Len(s)) = s

\* C15  When a stream fails (the request is rejected, the response is not ok
\* or has no body, or a read fails) the error message of the failure handler
\* is displayed, sending becomes false and the transcript is left as it is;
\* and no step at all removes or reorders a message or changes a content
\* other than by extending it.
C15_FailureKeepsTranscript ==
    /\ [][\A k \in Streams :
            st[k].pc \in {"fetch", "read"} /\ st'[k].pc = "failed" =>
                /\ error' = FailedToSend
                /\ ~sending'
                /\ messages' = messages]_vars
    /\ [][/\ Len(messages') >= Len(messages)
          /\ \A i \in 1..Len(messages) :
                /\ messages'[i].id = messages[i].id
                /\ messages'[i].role = messages[i].role
                /\ IsPrefix(messages[i].content, messages'[i].content)]_vars

\* a stream failed after part of the answer was in the transcript
C15_Witness ==
    \E k \in Streams :
        /\ st[k].pc = "failed"
        /\ controllerRef = k
        /\ st[k].msg # 0
        /\ ContentOf(messages, k) # <<>>
        /\ error = FailedToSend
        /\ ~sending

\* C16  After a stream has failed, every fragment extracted from it is part
\* of the content of its assistant message once no animation-frame callback
\* is left to run, whatever the user did in between.
C16_FailedStreamKeepsFragments ==
    \A k \in Streams :
        st[k].pc = "failed" /\ st[k].msg # 0 /\ frames = {} =>
            IsPrefix(st[k].frags, ContentOf(messages, k))

\* C17  Whenever sending is true it becomes false later, on every path of
\* a response that ends: completion, an error event followed by the end of
\* the stream, a failure, a cancellation.
C17_SendingEnds == sending ~> ~sending

\* a cancelled stream, and after it a stream that delivered an error event and
\* then ended: the loading state was left both times
C17_Witness ==
    \E j, k \in Streams :
        /\ st[j].pc = "cancelled"
        /\ st[k].pc = "completed"
        /\ controllerRef = k
        /\ error # JNull
        /\ ~sending

(***************************************************************************)
(* Properties of the retrieved chunks.                                     *)
(***************************************************************************)
\* C12  Once a message of the transcript has a chunks array, no step changes
\* that array.
C12_ChunksFixed ==
    [][\A i \in 1..Len(messages) :
          messages[i].chunks.t = "arr" =>
              /\ i <= Len(messages')
              /\ messages'[i].chunks = messages[i].chunks]_vars

\* C13  A retrieved_chunks event changes at most the chunks of the assistant
\* message its own stream created: the transcript keeps its length, every
\* content and the chunks of every other message; and a stream starts with no
\* chunks pending, so that chunks pending later were received on it.
C13_ChunksOwnMessageOnly ==
    /\ [](\A k \in Streams : st[k].pc = "fetch" => pendingChunks = JNull)
    /\ [][\A k \in Streams, evt \in ChunkEvents :
            OnEvent(k, evt) =>
                /\ Len(messages') = Len(messages)
                /\ \A i \in 1..Len(messages) :
                      /\ messages'[i].content = messages[i].content
                      /\ i # st[k].msg => messages'[i].chunks = messages[i].chunks]_vars

\* C14  The first non-empty fragment of a stream appends, in the same step,
\* exactly one assistant message to the transcript, whose content is that
\* fragment and whose chunks are the array pending from the same stream, if
\* any; a later fragment of the stream leaves the length of the transcript
\* as it is.
C14_FirstFragmentCreatesMessage ==
    [][\A k \in Streams :
          st'[k].frags # st[k].frags =>
              IF st[k].frags = <<>>
              THEN /\ Len(messages') = Len(messages) + 1
                   /\ SubSeq(messages', 1, Len(messages)) = messages
                   /\ messages'[Len(messages')].role = "assistant"
                   /\ messages'[Len(messages')].content = st'[k].frags
                   /\ messages'[Len(messages')].chunks =
                          IF pendingChunks.t = "arr" THEN pendingChunks ELSE JUndef
              ELSE Len(messages') = Len(messages)]_vars

\* a stream received chunks first and then two fragments: the transcript ends
\* with its one assistant message, which carries the chunks
C14_Witness ==
    \E k \in Streams :
        /\ st[k].pc = "read"
        /\ Len(st[k].frags) >= 2
        /\ st[k].msg = Len(messages)
        /\ messages[st[k].msg].role = "assistant"
        /\ messages[st[k].msg].chunks.t = "arr"
        /\ messages[st[k].msg - 1].role = "user"

ExInit ==
    /\ exData \in ExtractInputs
    /\ exOut = ExPending
    /\ SseIdle
    /\ ChatInit
    /\ TpIdle

\* one call of openaiConnector.extract(exData)
ExtractCall ==
    /\ exOut = ExPending
    /\ exOut' = Extract(exData)
    /\ UNCHANGED <<exData, sseVars, chatVars, tpVars, mdVars, srvVars>>

SpecExtract == ExInit /\ [][ExtractCall]_vars

\* ------------------------------------------------------------------------
\* C10  extract returns {done: true} for exactly the payload [DONE], returns
\* null for every payload that parses as JSON but has no `choices` array and
\* for every other payload that is not valid JSON, and never throws.
HasChoicesArray(x) == OptGet(x, <<"choices">>).t = "arr"

C10_ExtractTotal ==
    exOut # ExPending =>
        /\ exOut.kind # "throw"
        /\ (exOut.kind = "done") <=> (exData = DoneSentinel)
        /\ (exData # DoneSentinel /\ ~JSONParse(exData).ok) => exOut.kind = "null"
        /\ (JSONParse(exData).ok /\ ~HasChoicesArray(JSONParse(exData).v))
               => exOut.kind = "null"

\* extract has answered null on a truncated delta frame  {"choices":[
C10_Witness ==
    /\ exOut = ExOutcome("null", <<>>)
    /\ exData = <<P("{"), StrTok(<<"choices">>), P(":"), P("[")>>

(***************************************************************************)
(* readSSEStream on a response body delivered in arbitrary reads.          *)
(***************************************************************************)
\* terminated lines of a body
BodyLines ==
    {DataPrefix \o <<"x", LF>>,
     DataPrefix \o <<SP, "y", CR, LF>>,
     DataPrefix \o <<"C3", "A9", LF>>,
     EventPrefix \o <<"e", LF>>,
     <<":", "c", LF>>,
     <<LF>>,
     <<CR, LF>>}

\* what may follow the last line terminator
BodyTails ==
    {<<>>,
     DataPrefix \o <<"z">>,
     DataPrefix \o <<SP, "z", CR>>,
     DataPrefix \o <<"C3">>,
     EventPrefix \o <<"g">>,
     <<CR>>}

\* a body has at most MaxLines terminated lines
MaxLines == 2

SseBodies ==
    {Flatten(ls) \o t : ls \in UNION {[1..n -> BodyLines] : n \in 0..MaxLines},
                        t \in BodyTails}

SseInit ==
    /\ sseBody \in SseBodies
    /\ ssePos = 0
    /\ ssePc = "reading"
    /\ sseLine = <<>>
    /\ sseCuts = {}
    /\ rd = RdInit
    /\ ExIdle
    /\ ChatInit
    /\ TpIdle

\* the kind of place a read ends at, when the body goes on after position p
CutKinds(body, p) ==
    IF p = 0 \/ p >= Len(body) THEN {}
    ELSE (IF body[p] = CR /\ body[p + 1] = LF THEN {"crlf"} ELSE {})
         \cup (IF body[p] = "C3" /\ body[p + 1] = "A9" THEN {"char"} ELSE {})

\* lines 177-186: reader.read() delivers the next n bytes
SseRead(n) ==
    /\ ssePc = "reading"
    /\ ssePos + n <= Len(sseBody)
    /\ rd' = OnChunk(rd, SubSeq(sseBody, ssePos + 1, ssePos + n))
    /\ ssePos' = ssePos + n
    /\ sseCuts' = sseCuts \cup CutKinds(sseBody, ssePos + n)
    /\ UNCHANGED <<sseBody, ssePc, sseLine, exVars, chatVars, tpVars, mdVars, srvVars>>

\* lines 178, 188-191: reader.read() reports done, the promise resolves
SseEnd ==
    /\ ssePc = "reading"
    /\ ssePos = Len(sseBody)
    /\ rd' = OnEnd(rd)
    /\ ssePc' = "resolved"
    /\ UNCHANGED <<sseBody, ssePos, sseLine, sseCuts, exVars, chatVars, tpVars, mdVars, srvVars>>

\* lines 192-194: reader.read() rejects, the promise rejects
SseReject ==
    /\ ssePc = "reading"
    /\ ssePc' = "rejected"
    /\ UNCHANGED <<sseBody, ssePos, sseLine, sseCuts, rd, exVars, chatVars, tpVars, mdVars, srvVars>>

SseNext ==
    \/ \E n \in 1..Len(sseBody) : SseRead(n)
    \/ SseEnd
    \/ SseReject

SpecSSE == SseInit /\ [][SseNext]_vars

\* ------------------------------------------------------------------------
\* C7  For every body and every division of it into reads, the records
\* emitted when readSSEStream resolves are those emitted when the whole body
\* arrives in a single read.
C7_SplitInvariant ==
    ssePc = "resolved" => rd.emitted = OnEnd(OnChunk(RdInit, sseBody)).emitted

\* resolved after reads that ended between a CR and its LF and inside a
\* two-byte character (both inside a line), with records emitted
C7_Witness ==
    /\ ssePc = "resolved"
    /\ sseCuts = {"crlf", "char"}
    /\ Len(rd.emitted) >= 2

\* ------------------------------------------------------------------------
\* C8  When the body ends with data lines pending (the last of them possibly
\* without a line terminator), the step that resolves readSSEStream emits
\* exactly one more record, whose data is those lines joined.
StripCR(line) ==
    IF EndsWith(line, CR) THEN SubSeq(line, 1, Len(line) - 1) ELSE line

PendingAtEnd(r) ==
    LET tail == StripCR(r.buffer \o DecodeFlush(r.dec)) IN
    r.dataLines \o (IF StartsWith(tail, DataPrefix)
                    THEN <<FieldValue(tail, DataPrefix)>> ELSE <<>>)

C8_TrailingEventEmitted ==
    [][(ssePc = "reading" /\ ssePc' = "resolved" /\ PendingAtEnd(rd) # <<>>)
        => /\ Len(rd'.emitted) = Len(rd.emitted) + 1
           /\ SubSeq(rd'.emitted, 1, Len(rd.emitted)) = rd.emitted
           /\ rd'.emitted[Len(rd'.emitted)].data = JoinLines(PendingAtEnd(rd))]_vars

\* resolved on a body  data:x LF data:z  whose last line has no terminator
C8_Witness ==
    /\ ssePc = "resolved"
    /\ sseBody = DataPrefix \o <<"x", LF>> \o DataPrefix \o <<"z">>
    /\ rd.emitted = <<SseRecord(MessageName, <<"x", LF, "z">>)>>

(***************************************************************************)
(* processLine applied to one line after another.                          *)
(***************************************************************************)
FeedLines ==
    {<<>>, <<CR>>,
     DataPrefix \o <<"x">>, DataPrefix \o <<SP, "y", CR>>, DataPrefix,
     EventPrefix \o <<"e">>, EventPrefix \o <<SP, "f">>, EventPrefix,
     <<":", "c">>}

\* at most MaxFeed lines are fed
MaxFeed == 4

LinesInit ==
    /\ sseBody = <<>>
    /\ ssePos = 0
    /\ ssePc = "reading"
    /\ sseLine = <<>>
    /\ sseCuts = {}
    /\ rd = RdInit
    /\ ExIdle
    /\ ChatInit
    /\ TpIdle

\* line 185: processLine(line)
FeedLine(line) ==
    /\ ssePos < MaxFeed
    /\ rd' = ProcessLine(rd, line)
    /\ sseLine' = line
    /\ ssePos' = ssePos + 1
    /\ UNCHANGED <<sseBody, ssePc, sseCuts, exVars, chatVars, tpVars, mdVars, srvVars>>

SpecLines == LinesInit /\ [][\E line \in FeedLines : FeedLine(line)]_vars

IsEmptyLine(line) == StripCR(line) = <<>>

EmptyLineFed == ssePos' = ssePos + 1 /\ IsEmptyLine(sseLine')

FlushedRecord(r) ==
    SseRecord(IF r.currentEvent = <<>> THEN MessageName ELSE r.currentEvent,
              JoinLines(r.dataLines))

\* ------------------------------------------------------------------------
\* C9 (as stated)  Every empty line processed emits one record, with the
\* pending event name and the pending data lines joined, whatever the number
\* of data lines pending, and resets the pending name and data.
C9_EveryEmptyLineEmits ==
    [][EmptyLineFed
        => /\ rd'.emitted = Append(rd.emitted, FlushedRecord(rd))
           /\ rd'.dataLines = <<>>
           /\ rd'.currentEvent = MessageName]_vars

\* C9 (amended)  An empty line processed with at least one data line pending
\* emits exactly one record, with the pending event name and the pending data
\* lines joined by newlines; with no data line pending it emits nothing.  In
\* both cases the pending name and data are reset.
C9_EmptyLineFlushes ==
    [][EmptyLineFed
        => /\ rd'.emitted = IF rd.dataLines # <<>>
                            THEN Append(rd.emitted, FlushedRecord(rd))
                            ELSE rd.emitted
           /\ rd'.dataLines = <<>>
           /\ rd'.currentEvent = MessageName]_vars

\* an empty line has flushed two pending data lines under the name "e"
C9_Witness ==
    /\ IsEmptyLine(sseLine)
    /\ ssePos = 4
    /\ rd.emitted = <<SseRecord(<<"e">>, <<"x", LF, "y">>)>>
    /\ rd.dataLines = <<>>

(***************************************************************************)
(* AnnotatedMarkdown: escapeHtml and toPlaceholderSpans                    *)
(* (src/src/components/AnnotatedMarkdown.tsx 4-55).  Regular expressions   *)
(* are computed on the characters: a global replace scans from the left,   *)
(* takes the first match at each position and goes on after it.            *)
(***************************************************************************)
Digits == <<"0", "1", "2", "3", "4", "5", "6", "7", "8", "9">>
IsDigit(c) == \E d \in 1..10 : Digits[d] = c
AllDigits(s) == \A i \in 1..Len(s) : IsDigit(s[i])

Least(S) == CHOOSE x \in S : \A y \in S : x <= y

\* String.prototype.replace(/c/g, to) for one character c
RECURSIVE ReplaceChar(_, _, _)
ReplaceChar(s, c, to) ==
    IF s = <<>> THEN <<>>
    ELSE (IF Head(s) = c THEN to ELSE <<Head(s)>>) \o ReplaceChar(Tail(s), c, to)

\* A slip: the inner text is put into the span as it is.
EscapeHtmlNot(input) == input

\* lines 4-6
EscapeHtml(input) ==
    LET s1 == ReplaceChar(input, "&", <<"&", "a", "m", "p", ";">>)
        s2 == ReplaceChar(s1, "<", <<"&", "l", "t", ";">>)
        s3 == ReplaceChar(s2, ">", <<"&", "g", "t", ";">>)
        s4 == ReplaceChar(s3, "\"", <<"&", "q", "u", "o", "t", ";">>)
    IN ReplaceChar(s4, "'", <<"&", "#", "3", "9", ";">>)

ChunkWord == <<"c", "h", "u", "n", "k", "_">>
OpenLead == <<"<">>
CloseLead == <<"<", "/">>

\* (?:c(?:h(?:u(?:n(?:k(?:_(?:\d{0,3})?)?)?)?)?)?)?$ : what may follow the lead
\* up to the end of the string
PartialTagRest(r) ==
    \/ Len(r) <= 6 /\ r = SubSeq(ChunkWord, 1, Len(r))
    \/ /\ Len(r) \in 7..9
       /\ SubSeq(r, 1, 6) = ChunkWord
       /\ AllDigits(SubSeq(r, 7, Len(r)))

\* s.replace(/lead(?:c(?:h...)?)?$/, ''): the leftmost match is removed
MaskTrailing(s, lead) ==
    LET hits == {i \in 1..Len(s) :
                    /\ StartsWith(SubSeq(s, i, Len(s)), lead)
                    /\ PartialTagRest(SubSeq(s, i + Len(lead), Len(s)))}
    IN IF hits = {} THEN s ELSE SubSeq(s, 1, Least(hits) - 1)

\* line 23
MaskTrailingPartialStarts(s) == MaskTrailing(s, OpenLead)
\* line 25
MaskTrailingPartialEnds(s) == MaskTrailing(s, CloseLead)

\* the number of digits of a match of lead chunk_ \d{1,3} > at position i of
\* s, 0 when there is no match
TagDigitsAt(s, i, lead) ==
    LET first == i + Len(lead) + 6
        ds == {d \in 1..3 :
                 /\ first + d <= Len(s)
                 /\ AllDigits(SubSeq(s, first, first + d - 1))
                 /\ s[first + d] = ">"}
    IN IF StartsWith(SubSeq(s, i, Len(s)), lead \o ChunkWord) /\ ds # {}
       THEN Least(ds) ELSE 0

\* the length of that match, 0 when there is none
TagLenAt(s, i, lead) ==
    IF TagDigitsAt(s, i, lead) = 0 THEN 0
    ELSE Len(lead) + 6 + TagDigitsAt(s, i, lead) + 1

\* s.replace(/.../g, '') for the tag patterns with the given leads
RECURSIVE StripTagsFrom(_, _, _)
StripTagsFrom(s, i, leads) ==
    IF i > Len(s) THEN <<>>
    ELSE LET ls == {l \in leads : TagLenAt(s, i, l) > 0} IN
         IF ls = {} THEN <<s[i]>> \o StripTagsFrom(s, i + 1, leads)
         ELSE StripTagsFrom(s, i + TagLenAt(s, i, CHOOSE l \in ls : TRUE), leads)

StripTags(s, leads) == StripTagsFrom(s, 1, leads)

\* Number(numStr) for a string of digits
RECURSIVE NumberOf(_)
NumberOf(ds) ==
    IF ds = <<>> THEN 0
    ELSE 10 * NumberOf(SubSeq(ds, 1, Len(ds) - 1))
         + (CHOOSE d \in 1..10 : Digits[d] = ds[Len(ds)]) - 1

\* `${index}` for a positive integer
RECURSIVE NumberToString(_)
NumberToString(n) ==
    IF n < 10 THEN <<Digits[n + 1]>>
    ELSE NumberToString(n \div 10) \o <<Digits[(n % 10) + 1]>>

SpanOpen(index) == <<"<", "s", "p", "a", "n", " ", "d", "a", "t", "a", "-", "c", "h", "u", "n", "k", "-", "i", "d", "=", "\"">> \o NumberToString(index) \o <<"\"", ">">>
SpanClose == <<"<", "/", "s", "p", "a", "n", ">">>

\* A slip: the range check is left out.
PairReplacementAnyIndex(numStr, innerText, chunks) ==
    SpanOpen(NumberOf(numStr)) \o EscapeHtml(innerText) \o SpanClose

\* lines 38-46: the replacement of one match of the pair pattern
PairReplacement(numStr, innerText, chunks) ==
    LET index == NumberOf(numStr) IN
    IF index < 1 \/ index > Len(chunks.kids) THEN EscapeHtml(innerText)
    ELSE SpanOpen(index) \o EscapeHtml(innerText) \o SpanClose

\* lines 36, 38: src.replace(/<chunk_(\d{1,3})>([\s\S]*?)<\/chunk_\1>/g, ...)
RECURSIVE ReplacePairsFrom(_, _, _)
ReplacePairsFrom(s, i, chunks) ==
    IF i > Len(s) THEN <<>>
    ELSE LET n == TagLenAt(s, i, OpenLead)
             numStr == SubSeq(s, i + 7, i + n - 2)
             closing == CloseLead \o ChunkWord \o numStr \o <<">">>
             ends == {j \in (i + n)..Len(s) : StartsWith(SubSeq(s, j, Len(s)), closing)}
         IN IF n = 0 \/ ends = {}
            THEN <<s[i]>> \o ReplacePairsFrom(s, i + 1, chunks)
            ELSE PairReplacement(numStr, SubSeq(s, i + n, Least(ends) - 1), chunks)
                 \o ReplacePairsFrom(s, Least(ends) + Len(closing), chunks)

\* lines 20-55
ToPlaceholderSpans(input, chunks) ==
    LET src == MaskTrailingPartialEnds(MaskTrailingPartialStarts(input)) IN
    IF chunks.t # "arr" \/ Len(chunks.kids) = 0
    THEN StripTags(src, {OpenLead, CloseLead})
    ELSE StripTags(StripTags(ReplacePairsFrom(src, 1, chunks), {OpenLead}), {CloseLead})

(***************************************************************************)
(* Message texts handed to toPlaceholderSpans.                             *)
(***************************************************************************)
\* texts put together from at most MaxPieces pieces: plain characters,
\* complete tags, and parts of tags
MaxPieces == 3

Pieces ==
    {<<"x">>, <<"&">>, <<"<">>,
     <<"<", "c", "h", "u", "n", "k", "_", "1", ">">>, <<"<", "/", "c", "h", "u", "n", "k", "_", "1", ">">>,
     <<"<", "c", "h", "u", "n", "k", "_">>, <<"<", "/", "c">>, <<"1", ">">>}

RECURSIVE PieceTexts(_)
PieceTexts(n) ==
    IF n = 0 THEN {<<>>}
    ELSE {p \o t : p \in Pieces, t \in PieceTexts(n - 1)}

FreeTexts == UNION {PieceTexts(n) : n \in 0..MaxPieces}

\* texts with one or two complete citation pairs.  Every part is written
\* down with what is to be seen of it:
\*   a number: its digits, its value, the value in decimal
\*   an inner text: raw, HTML-escaped by hand, and with its tags taken out
\*   a text after the pairs: raw, and as shown (a trailing partial tag is
\*   hidden, a stray tag taken out)
Numbers ==
    {[digits |-> <<"1">>, value |-> 1, shown |-> <<"1">>],
     [digits |-> <<"2">>, value |-> 2, shown |-> <<"2">>],
     [digits |-> <<"0">>, value |-> 0, shown |-> <<"0">>],
     [digits |-> <<"0", "1">>, value |-> 1, shown |-> <<"1">>],
     [digits |-> <<"9", "9", "9">>, value |-> 999, shown |-> <<"9", "9", "9">>]}

Inners ==
    {[raw |-> <<>>, escaped |-> <<>>, plain |-> <<>>],
     [raw |-> <<"A", "T", "P">>, escaped |-> <<"A", "T", "P">>, plain |-> <<"A", "T", "P">>],
     [raw |-> <<"a", "&", "b", " ", "<", "i", ">", "\"", "c", "\"", "'">>, escaped |-> <<"a", "&", "a", "m", "p", ";", "b", " ", "&", "l", "t", ";", "i", "&", "g", "t", ";", "&", "q", "u", "o", "t", ";", "c", "&", "q", "u", "o", "t", ";", "&", "#", "3", "9", ";">>, plain |-> <<"a", "&", "b", " ", "<", "i", ">", "\"", "c", "\"", "'">>],
     [raw |-> <<"u", "<", "c", "h", "u", "n", "k", "_", "7", ">", "v", "<", "/", "c", "h", "u", "n", "k", "_", "7", ">", "w">>, escaped |-> <<"u", "&", "l", "t", ";", "c", "h", "u", "n", "k", "_", "7", "&", "g", "t", ";", "v", "&", "l", "t", ";", "/", "c", "h", "u", "n", "k", "_", "7", "&", "g", "t", ";", "w">>, plain |-> <<"u", "v", "w">>]}

Befores == {<<>>, <<"s", "o", " ">>}

Afters ==
    {[raw |-> <<>>, shown |-> <<>>],
     [raw |-> <<" ", "i", "s", ".">>, shown |-> <<" ", "i", "s", ".">>],
     [raw |-> <<" ", "a", "n", "d", " ", "<", "c", "h", "u">>, shown |-> <<" ", "a", "n", "d", " ">>],
     [raw |-> <<"<", "c", "h", "u", "n", "k", "_", "3", ">", " ", "e", "n", "d">>, shown |-> <<" ", "e", "n", "d">>]}

\* <chunk_K>inner</chunk_K>
PairText(num, inner) ==
    OpenLead \o ChunkWord \o num.digits \o <<">">> \o inner.raw
    \o CloseLead \o ChunkWord \o num.digits \o <<">">>

NoPair == [digits |-> <<>>, value |-> 0, shown |-> <<>>]

\* a text is described by what is before the pairs, the first pair, the
\* second pair (NoPair: there is none) and what is after them
PairedShapes ==
    {[before |-> b, num1 |-> n1, inner1 |-> i1, num2 |-> n2, inner2 |-> i2, after |-> a] :
        b \in Befores, n1 \in Numbers, i1 \in Inners,
        n2 \in {NoPair} \cup {n \in Numbers : n.value \in {0, 2}},
        i2 \in {i \in Inners : i.raw = <<"A", "T", "P">>}, a \in Afters}

TextOf(shape) ==
    shape.before \o PairText(shape.num1, shape.inner1)
    \o (IF shape.num2 = NoPair THEN <<>> ELSE PairText(shape.num2, shape.inner2))
    \o shape.after.raw

PairedTexts == {TextOf(shape) : shape \in PairedShapes}

\* the chunks argument: undefined, or an array of zero, one or two strings
ChunkArgs ==
    {JUndef, JArr(<<>>), JArr(<<JStr(<<"s1">>)>>), JArr(<<JStr(<<"s1">>), JStr(<<"s2">>)>>)}

TpInit ==
    /\ tpInput \in FreeTexts \cup PairedTexts
    /\ tpChunks \in ChunkArgs
    /\ tpOut = TpPending
    /\ MdIdle
    /\ SrvIdle
    /\ ExIdle
    /\ SseIdle
    /\ ChatInit

\* line 58: one call of toPlaceholderSpans(text, chunks)
ToPlaceholderCall ==
    /\ ~tpOut.done
    /\ tpOut' = TpReturned(ToPlaceholderSpans(tpInput, tpChunks))
    /\ UNCHANGED <<tpInput, tpChunks, exVars, sseVars, chatVars, mdVars, srvVars>>

SpecPlaceholder == TpInit /\ [][ToPlaceholderCall]_vars

(***************************************************************************)
(* Properties of toPlaceholderSpans.                                       *)
(***************************************************************************)
NoChunks(chunks) == chunks.t # "arr" \/ Len(chunks.kids) = 0
InRange(num, chunks) == ~NoChunks(chunks) /\ num.value \in 1..Len(chunks.kids)

\* <span data-chunk-id="K">body</span>
SpanAround(shown, body) ==
    <<"<", "s", "p", "a", "n", " ", "d", "a", "t", "a", "-", "c", "h", "u", "n", "k", "-", "i", "d", "=", "\"">> \o shown \o <<"\"", ">">> \o body \o <<"<", "/", "s", "p", "a", "n", ">">>

\* what is to be seen of one pair
ShownPair(num, inner, chunks) ==
    IF NoChunks(chunks) THEN inner.plain
    ELSE IF InRange(num, chunks) THEN SpanAround(num.shown, inner.escaped)
    ELSE inner.escaped

\* what is to be seen of a text with pairs
ShownText(shape, chunks) ==
    shape.before \o ShownPair(shape.num1, shape.inner1, chunks)
    \o (IF shape.num2 = NoPair THEN <<>> ELSE ShownPair(shape.num2, shape.inner2, chunks))
    \o shape.after.shown

PairsOf(shape) == {[num |-> shape.num1]} \cup
                  (IF shape.num2 = NoPair THEN {} ELSE {[num |-> shape.num2]})

SpanStarts(out) == {i \in 1..Len(out) : StartsWith(SubSeq(out, i, Len(out)), <<"<", "s", "p", "a", "n", " ", "d", "a", "t", "a", "-", "c", "h", "u", "n", "k", "-", "i", "d", "=", "\"">>)}

\* the value of the attribute of the span beginning at position i: the
\* characters up to the next quotation mark
AttributeAt(out, i) ==
    LET from == i + Len(<<"<", "s", "p", "a", "n", " ", "d", "a", "t", "a", "-", "c", "h", "u", "n", "k", "-", "i", "d", "=", "\"">>)
        quotes == {q \in from..Len(out) : out[q] = "\""}
    IN IF quotes = {} THEN SubSeq(out, from, Len(out))
       ELSE SubSeq(out, from, Least(quotes) - 1)

\* the decimal numbers 1..n, for n < 10
IndexStrings(n) == {<<Digits[k + 1]>> : k \in 1..n}

PartialTag(s, lead) ==
    LET head == lead \o ChunkWord IN
    /\ Len(s) > 0
    /\ \/ IsPrefix(s, head)
       \/ /\ IsPrefix(head, s)
          /\ Len(s) - Len(head) <= 3
          /\ \A i \in (Len(head) + 1)..Len(s) : s[i] \in {"0", "1", "2", "3", "4", "5", "6", "7", "8", "9"}

EndsWithPartialTag(out) ==
    \E n \in 1..Len(out) :
        LET tail == SubSeq(out, Len(out) - n + 1, Len(out)) IN
        PartialTag(tail, <<"<">>) \/ PartialTag(tail, <<"<", "/">>)

\* C20  For every input text the output of toPlaceholderSpans does not end
\* with a non-empty strict prefix of an opening citation tag (<, <c, ...,
\* <chunk_12) nor with one of a closing citation tag (</, </c, ..., </chunk_12).
C20_NoTrailingPartialTag == tpOut.done => ~EndsWithPartialTag(tpOut.text)

\* a complete tag lead chunk_ d{1,3} > begins at position i of out
CompleteTagAt(out, i, lead) ==
    LET head == lead \o ChunkWord
        rest == SubSeq(out, i + Len(head), Len(out))
    IN /\ IsPrefix(head, SubSeq(out, i, Len(out)))
       /\ \E d \in 1..3 :
             /\ Len(rest) > d
             /\ \A j \in 1..d : rest[j] \in {"0", "1", "2", "3", "4", "5", "6", "7", "8", "9"}
             /\ rest[d + 1] = ">"

HasCompleteTag(out) ==
    \E i \in 1..Len(out) :
        CompleteTagAt(out, i, <<"<">>) \/ CompleteTagAt(out, i, <<"<", "/">>)

\* C21  For every input text and every chunk array, present or absent, the
\* output of toPlaceholderSpans holds no complete <chunk_N> or </chunk_N> tag
\* with N of one to three digits.
C21_NoCompleteTagLeft == tpOut.done => ~HasCompleteTag(tpOut.text)

(***************************************************************************)
(* normalizeStreamingMarkdown (Markdown.tsx lines 22-36)                   *)
(***************************************************************************)
\* the grave accent U+0060, which a string of this language cannot hold
Tick == "grave"
BacktickFence == <<Tick, Tick, Tick>>
TildeFence == <<"~", "~", "~">>
NewLine == <<"\n">>

\* out.indexOf(fence, i) with i counted from 0; -1 when there is none
IndexOf(out, fence, i) ==
    LET hits == {p \in i..(Len(out) - Len(fence)) :
                    SubSeq(out, p + 1, p + Len(fence)) = fence}
    IN IF hits = {} THEN -1 ELSE Least(hits)

\* lines 25-31: the loop that counts the occurrences from position i on
RECURSIVE CountFence(_, _, _)
CountFence(out, fence, i) ==
    LET pos == IndexOf(out, fence, i) IN
    IF pos = -1 THEN 0 ELSE 1 + CountFence(out, fence, pos + Len(fence))

PatchFenceAlways(out, fence) == out \o NewLine \o fence

\* lines 24-33
PatchFence(out, fence) ==
    IF CountFence(out, fence, 0) % 2 = 1 THEN out \o NewLine \o fence ELSE out

\* line 34
NormalizeStreamingMarkdown(text) == PatchFence(PatchFence(text, BacktickFence), TildeFence)

MaxFencePieces == 3

FencePieces == {<<Tick>>, <<Tick, Tick>>, BacktickFence, <<"~">>, TildeFence, <<"x">>, NewLine}

RECURSIVE FenceTexts(_)
FenceTexts(n) ==
    IF n = 0 THEN {<<>>}
    ELSE {p \o t : p \in FencePieces, t \in FenceTexts(n - 1)}

NmInit ==
    /\ nmText \in UNION {FenceTexts(n) : n \in 0..MaxFencePieces}
    /\ nmOut = TpPending
    /\ nmAgain = TpPending
    /\ DcIdle
    /\ SrvIdle
    /\ tpInput = <<>>
    /\ tpChunks = JUndef
    /\ tpOut = TpPending
    /\ ExIdle
    /\ SseIdle
    /\ ChatInit

\* line 76: one render of the text
NormalizeCall ==
    /\ ~nmOut.done
    /\ nmOut' = TpReturned(NormalizeStreamingMarkdown(nmText))
    /\ UNCHANGED <<nmText, nmAgain, dcVars, exVars, sseVars, chatVars, tpVars, srvVars>>

\* the function applied to the text it returned
NormalizeAgain ==
    /\ nmOut.done
    /\ ~nmAgain.done
    /\ nmAgain' = TpReturned(NormalizeStreamingMarkdown(nmOut.text))
    /\ UNCHANGED <<nmText, nmOut, dcVars, exVars, sseVars, chatVars, tpVars, srvVars>>

SpecNormalize == NmInit /\ [][NormalizeCall \/ NormalizeAgain]_vars

\* the number of fences of character c in s, read off the maximal runs of c:
\* a run of n characters holds n \div 3 fences
RunStarts(s, c) == {i \in 1..Len(s) : s[i] = c /\ (i = 1 \/ s[i - 1] # c)}
RunLen(s, c, i) == Least({n \in 1..Len(s) : i + n > Len(s) \/ s[i + n] # c})
RECURSIVE SumRuns(_, _, _)
SumRuns(s, c, starts) ==
    IF starts = {} THEN 0
    ELSE LET i == Least(starts) IN
         (RunLen(s, c, i) \div 3) + SumRuns(s, c, starts \ {i})
FenceCount(s, c) == SumRuns(s, c, RunStarts(s, c))

ClosingFor(s, c) == IF FenceCount(s, c) % 2 = 1 THEN <<"\n", c, c, c>> ELSE <<>>

\* C22  normalizeStreamingMarkdown appends exactly one closing delimiter (on
\* a line of its own) for each fence family, triple backtick and triple
\* tilde, that occurs an odd number of times in the text, and nothing for a
\* family that occurs an even number of times; in its output both families
\* occur an even number of times, and applying it to its output changes
\* nothing.
C22_FencesBalanced ==
    /\ nmOut.done =>
          /\ nmOut.text = nmText \o ClosingFor(nmText, Tick) \o ClosingFor(nmText, "~")
          /\ FenceCount(nmOut.text, Tick) % 2 = 0
          /\ FenceCount(nmOut.text, "~") % 2 = 0
    /\ nmAgain.done => nmAgain.text = nmOut.text

\* a backtick fence, x, a tilde fence: both families occur once, both are closed
C22_Witness ==
    /\ nmAgain.done
    /\ nmText = <<Tick, Tick, Tick, "x", "~", "~", "~">>
    /\ nmOut.text = <<Tick, Tick, Tick, "x", "~", "~", "~", "\n", Tick, Tick, Tick, "\n", "~", "~", "~">>
    /\ nmAgain.text = nmOut.text

(***************************************************************************)
(* decorateChunkPlaceholders (Markdown.tsx lines 38-70).  A DOM node is a  *)
(* record: kind is "text" or the class the code gives an element ("span"   *)
(* for an element without one), id is the value of data-chunk-id or NoAttr *)
(* when the attribute is absent, data is the value of data-text, text is   *)
(* the data of a text node, kids are the child nodes.                      *)
(***************************************************************************)
NoAttr == <<"absent">>

TextNode(s) == [kind |-> "text", id |-> NoAttr, data |-> NoAttr, text |-> s, kids |-> <<>>]
SpanNode(id, kids) == [kind |-> "span", id |-> id, data |-> NoAttr, text |-> <<>>, kids |-> kids]

\* node.textContent
RECURSIVE TextContent(_)
TextContent(node) ==
    IF node.kind = "text" THEN node.text
    ELSE LET RECURSIVE Cat(_)
             Cat(i) == IF i > Len(node.kids) THEN <<>>
                       ELSE TextContent(node.kids[i]) \o Cat(i + 1)
         IN Cat(1)

RECURSIVE StripTrailingZeros(_)
StripTrailingZeros(ds) ==
    IF ds # <<>> /\ ds[Len(ds)] = "0" THEN StripTrailingZeros(SubSeq(ds, 1, Len(ds) - 1))
    ELSE ds

NaN == [nan |-> TRUE, int |-> 0, frac |-> <<>>]
Num(int, frac) == [nan |-> FALSE, int |-> int, frac |-> StripTrailingZeros(frac)]

\* line 45: Number(idAttr) for strings of digits, points, spaces and letters
\* other than a sign, an exponent, a radix prefix or Infinity: the trimmed
\* string is empty (0), digits, digits.digits, digits. or .digits; anything
\* else is NaN.  A number is its integer part and its fraction digits.
AttrNumber(idAttr) ==
    LET t == Trim(idAttr)
        points == {i \in 1..Len(t) : t[i] = "."}
    IN IF t = <<>> THEN Num(0, <<>>)
       ELSE IF points = {} THEN
            IF AllDigits(t) THEN Num(NumberOf(t), <<>>) ELSE NaN
       ELSE LET p == Least(points)
                whole == SubSeq(t, 1, p - 1)
                part == SubSeq(t, p + 1, Len(t))
            IN IF AllDigits(whole) /\ AllDigits(part) /\ Len(whole) + Len(part) > 0
               THEN Num(NumberOf(whole), part) ELSE NaN

\* line 46
AttrOutOfRange(index, chunkTexts) ==
    \/ index.nan
    \/ index.int < 1
    \/ index.int > Len(chunkTexts.kids)
    \/ index.int = Len(chunkTexts.kids) /\ index.frac # <<>>

\* line 48: chunkTexts[index - 1] || ''
ChunkTextAt(index, chunkTexts) ==
    IF index.frac = <<>> THEN chunkTexts.kids[index.int].s ELSE <<>>

\* line 58: String(index)
IndexString(index) ==
    NumberToString(index.int) \o (IF index.frac = <<>> THEN <<>> ELSE <<".">> \o index.frac)

\* lines 52-66
Wrapper(visible, badgeText, chunkText) ==
    [kind |-> "annot-ref", id |-> NoAttr, data |-> NoAttr, text |-> <<>>,
     kids |-> << TextNode(visible),
                 [kind |-> "annot-badge", id |-> NoAttr, data |-> NoAttr, text |-> <<>>,
                  kids |-> <<TextNode(badgeText)>>],
                 [kind |-> "annot-tooltip", id |-> NoAttr, data |-> chunkText, text |-> <<>>,
                  kids |-> <<>>] >>]

\* lines 41-69 for the subtree of one node.  The candidates are visited in
\* document order: a placeholder that is replaced takes its descendants out
\* of the document, and replacing those afterwards changes nothing in root.
RECURSIVE DecorateNode(_, _)
DecorateNode(node, chunkTexts) ==
    IF node.kind = "text" THEN node
    ELSE IF node.kind = "span" /\ node.id # NoAttr
            /\ ~AttrOutOfRange(AttrNumber(node.id), chunkTexts)
    THEN LET index == AttrNumber(node.id) IN
         Wrapper(TextContent(node), IndexString(index), ChunkTextAt(index, chunkTexts))
    ELSE [node EXCEPT !.kids = [i \in 1..Len(node.kids) |-> DecorateNode(node.kids[i], chunkTexts)]]

\* lines 38-70
DecorateChunkPlaceholders(root, chunkTexts) ==
    IF chunkTexts.t # "arr" \/ Len(chunkTexts.kids) = 0 THEN root
    ELSE [i \in 1..Len(root) |-> DecorateNode(root[i], chunkTexts)]

MaxNodes == 2

\* the values of data-chunk-id, each with the index it denotes (0: none)
IdAttrs ==
    { [id |-> <<"1">>, index |-> 1], [id |-> <<"2">>, index |-> 2],
      [id |-> <<"3">>, index |-> 3], [id |-> <<"0">>, index |-> 0],
      [id |-> <<"0", "1">>, index |-> 1], [id |-> <<" ", "1">>, index |-> 1],
      [id |-> <<"1", ".", "0">>, index |-> 1], [id |-> <<"1", ".", "5">>, index |-> 0],
      [id |-> <<>>, index |-> 0], [id |-> <<"a">>, index |-> 0] }

CitedText == <<"A", "T", "P">>

DomNodes ==
    {TextNode(<<"s", "o">>)}
    \cup {SpanNode(a.id, <<TextNode(CitedText)>>) : a \in IdAttrs}
    \cup {SpanNode(NoAttr, <<TextNode(<<"i", "n">>), SpanNode(<<"1">>, <<TextNode(CitedText)>>)>>),
          SpanNode(<<"0">>, <<SpanNode(<<"2">>, <<TextNode(CitedText)>>)>>),
          SpanNode(<<"1">>, <<TextNode(<<"u">>), SpanNode(<<"2">>, <<TextNode(<<"v">>)>>)>>)}

RECURSIVE DomRoots(_)
DomRoots(n) ==
    IF n = 0 THEN {<<>>}
    ELSE {<<node>> \o r : node \in DomNodes, r \in DomRoots(n - 1)}

DcInit ==
    /\ dcRoot \in UNION {DomRoots(n) : n \in 0..MaxNodes}
    /\ dcChunks \in ChunkArgs
    /\ dcOut = DcPending
    /\ NmIdle
    /\ SrvIdle
    /\ tpInput = <<>>
    /\ tpChunks = JUndef
    /\ tpOut = TpPending
    /\ ExIdle
    /\ SseIdle
    /\ ChatInit

\* line 90
DecorateCall ==
    /\ ~dcOut.done
    /\ dcOut' = DcReturned(DecorateChunkPlaceholders(dcRoot, dcChunks))
    /\ UNCHANGED <<dcRoot, dcChunks, nmVars, exVars, sseVars, chatVars, tpVars, srvVars>>

SpecDecorate == DcInit /\ [][DecorateCall]_vars

\* the index a data-chunk-id value denotes, 0 when it denotes none
DenotedIndex(id) == (CHOOSE a \in IdAttrs : a.id = id).index

\* the widget for citation K: the visible text, a badge showing K, and a
\* tooltip carrying the K-th chunk
Widget(visible, K, chunks) ==
    [kind |-> "annot-ref", id |-> NoAttr, data |-> NoAttr, text |-> <<>>,
     kids |-> << [kind |-> "text", id |-> NoAttr, data |-> NoAttr, text |-> visible, kids |-> <<>>],
                 [kind |-> "annot-badge", id |-> NoAttr, data |-> NoAttr, text |-> <<>>,
                  kids |-> << [kind |-> "text", id |-> NoAttr, data |-> NoAttr,
                               text |-> <<Digits[K + 1]>>, kids |-> <<>>] >>],
                 [kind |-> "annot-tooltip", id |-> NoAttr, data |-> chunks.kids[K].s,
                  text |-> <<>>, kids |-> <<>>] >>]

RECURSIVE Decorated(_, _)
Decorated(node, chunks) ==
    IF node.kind = "span" /\ node.id # NoAttr /\ DenotedIndex(node.id) \in 1..Len(chunks.kids)
    THEN Widget(TextContent(node), DenotedIndex(node.id), chunks)
    ELSE [node EXCEPT !.kids = [i \in 1..Len(node.kids) |-> Decorated(node.kids[i], chunks)]]

\* C23  decorateChunkPlaceholders replaces every placeholder span whose index
\* K is in 1..chunk count by a widget holding the span's visible text, a
\* badge showing K and a tooltip whose data-text is the K-th chunk; a
\* placeholder whose index is not a number in that range, and every
\* placeholder when no chunks exist, is left unchanged.
C23_PlaceholdersDecorated ==
    dcOut.done =>
        dcOut.root = IF NoChunks(dcChunks) THEN dcRoot
                     ELSE [i \in 1..Len(dcRoot) |-> Decorated(dcRoot[i], dcChunks)]

(***************************************************************************)
(* The server: searchRag and buildMessagesWithRAG (ragMessages), and the   *)
(* retrieved_chunks event of handleChat (server/index.ts lines 267-272).   *)
(* The search service's answer is [kind, json]: kind "throw" when fetch or *)
(* response.json() throws, "notok" for a response that is not ok, "ok"     *)
(* with the parsed body json.                                              *)
(***************************************************************************)
\* lines 39-40: typeof t === 'string' && t.trim().length > 0
KeepsText(t) == t.t = "str" /\ Len(Trim(t.s)) > 0

\* lines 37-44
RECURSIVE CollectTexts(_, _)
CollectTexts(results, i) ==
    IF i > Len(results) THEN <<>>
    ELSE LET t == OptGet(results[i], <<"text">>) IN
         (IF KeepsText(t) THEN <<t.s>> ELSE <<>>) \o CollectTexts(results, i + 1)

\* lines 22-49
SearchRag(resp) ==
    IF resp.kind # "ok" THEN <<>>
    ELSE LET results == OptGet(resp.json, <<"results">>) IN
         CollectTexts(IF results.t = "arr" THEN results.kids ELSE <<>>, 1)

DisplayIndexZeroBased(idx) == idx

\* line 90, idx counted from 0
DisplayIndex(idx) == idx + 1

\* line 91
ChunkLine(idx, text) == <<"[">> \o NumberToString(DisplayIndex(idx)) \o <<"]", " ">> \o text

\* lines.join('\n\n')
RECURSIVE JoinWith(_, _)
JoinWith(lines, sep) ==
    IF lines = <<>> THEN <<>>
    ELSE IF Len(lines) = 1 THEN lines[1]
    ELSE lines[1] \o sep \o JoinWith(Tail(lines), sep)

ChunksHeading == <<"CHUNKS (1-indexed):">>

\* lines 85-96
ChunkBlock(chunkTexts) ==
    IF Len(chunkTexts) > 0
    THEN LET lines == [i \in 1..Len(chunkTexts) |-> ChunkLine(i - 1, chunkTexts[i])] IN
         <<"\n", "\n">> \o ChunksHeading \o <<"\n">> \o JoinWith(lines, <<"\n", "\n">>) \o <<"\n">>
    ELSE <<>>

\* server/index.ts lines 270-272 with writeSSEEvent (lines 137-140)
WriteRetrievedChunks(chunkTexts) ==
    IF Len(chunkTexts) > 0
    THEN << Evt(RetrievedChunksName,
                Stringify(Obj1("chunks", JArr([i \in 1..Len(chunkTexts) |-> JStr(chunkTexts[i])])))) >>
    ELSE <<>>

MaxHits == 3

Hit(text) == Obj1("text", text)

SearchHits ==
    {Hit(JStr(<<"a">>)), Hit(JStr(<<"b", " ">>)), Hit(JStr(<<>>)), Hit(JStr(<<" ">>)),
     Hit(JNum("5")), JObj(<<>>, <<>>), JNull}

RECURSIVE HitLists(_)
HitLists(n) ==
    IF n = 0 THEN {<<>>}
    ELSE {<<h>> \o r : h \in SearchHits, r \in HitLists(n - 1)}

SearchAnswers ==
    {[kind |-> "throw", json |-> JUndef], [kind |-> "notok", json |-> JUndef],
     [kind |-> "ok", json |-> JNull], [kind |-> "ok", json |-> Obj1("results", JStr(<<"a">>))]}
    \cup {[kind |-> "ok", json |-> Obj1("results", JArr(hs))] :
             hs \in UNION {HitLists(n) : n \in 0..MaxHits}}

RgInit ==
    /\ rgResp \in SearchAnswers
    /\ rgOut = RgPending
    /\ HcIdle
    /\ MdIdle
    /\ tpInput = <<>>
    /\ tpChunks = JUndef
    /\ tpOut = TpPending
    /\ ExIdle
    /\ SseIdle
    /\ ChatInit

\* server/index.ts lines 267-272: the messages are built and the chunks sent
BuildAndSendChunks ==
    /\ ~rgOut.done
    /\ LET chunkTexts == SearchRag(rgResp) IN
       rgOut' = [done |-> TRUE, chunkTexts |-> chunkTexts,
                 chunkBlock |-> ChunkBlock(chunkTexts),
                 written |-> WriteRetrievedChunks(chunkTexts)]
    /\ UNCHANGED <<rgResp, hcVars, mdVars, exVars, sseVars, chatVars, tpVars>>

SpecRag == RgInit /\ [][BuildAndSendChunks]_vars

\* the retrieval results of an answer, none when it carries no array
ResultsOf(resp) ==
    IF resp.kind = "ok" /\ resp.json.t = "obj" /\ resp.json.keys = << <<"results">> >>
       /\ resp.json.kids[1].t = "arr"
    THEN resp.json.kids[1].kids ELSE <<>>

HasText(hit) == hit.t = "obj" /\ hit.keys = << <<"text">> >> /\ hit.kids[1].t = "str"
NonEmptyText(hit) == HasText(hit) /\ hit.kids[1].s # <<>>
NonBlankText(hit) == HasText(hit) /\ \E i \in 1..Len(hit.kids[1].s) : hit.kids[1].s[i] # " "

\* the texts of hits that have one, in their order
TextsOf(hits) == [i \in 1..Len(hits) |-> hits[i].kids[1].s]

\* the array the client reads out of the events written: JSON.parse(data).chunks
\* of the one retrieved_chunks event, nothing when no event was written
ClientChunks(written) ==
    IF written = <<>> THEN <<>>
    ELSE LET arr == OptGet(JSONParse(written[1].data).v, <<"chunks">>) IN
         [i \in 1..Len(arr.kids) |-> arr.kids[i].s]

\* the prompt's chunk block numbers the texts 1, 2, ... in order
NumberedBlock(texts) ==
    IF texts = <<>> THEN <<>>
    ELSE LET RECURSIVE Items(_)
             Items(i) == IF i > Len(texts) THEN <<>>
                         ELSE (IF i > 1 THEN <<"\n", "\n">> ELSE <<>>)
                              \o <<"[", Digits[i + 1], "]", " ">> \o texts[i] \o Items(i + 1)
         IN <<"\n", "\n", "CHUNKS (1-indexed):", "\n">> \o Items(1) \o <<"\n">>

ChunkListIs(kept) ==
    /\ rgOut.chunkTexts = kept
    /\ rgOut.chunkBlock = NumberedBlock(kept)
    /\ Len(rgOut.written) = (IF kept = <<>> THEN 0 ELSE 1)
    /\ \A i \in 1..Len(rgOut.written) : rgOut.written[i].event = RetrievedChunksName
    /\ ClientChunks(rgOut.written) = kept

\* C24 as stated: the chunk list keeps the retrieval results in their order,
\* skipping the entries whose text is not a string or is empty, and the same
\* list gives the [i] numbers of the prompt and the array of retrieved_chunks.
C24_EmptySkippedOnly ==
    rgOut.done => ChunkListIs(TextsOf(SelectSeq(ResultsOf(rgResp), NonEmptyText)))

\* C24  The chunk list built by the server keeps the retrieval results in
\* their original order, skipping the entries whose text is not a string or
\* is empty or holds white space only, and the same list defines both the
\* [i] numbers written into the model prompt and the array sent to the client
\* in retrieved_chunks: the chunk numbered i in the prompt is element i
\* (1-based) of the client's chunk array.  With no chunk kept, the prompt has
\* no chunk block and no event is sent.
C24_ChunkListShared ==
    rgOut.done => ChunkListIs(TextsOf(SelectSeq(ResultsOf(rgResp), NonBlankText)))

\* results a, blank, "b ": the blank one is skipped, "b " is number 2
C24_Witness ==
    /\ rgOut.done
    /\ rgResp = [kind |-> "ok",
                 json |-> Obj1("results", JArr(<<Hit(JStr(<<"a">>)), Hit(JStr(<<" ">>)),
                                                 Hit(JStr(<<"b", " ">>))>>))]
    /\ rgOut.chunkTexts = << <<"a">>, <<"b", " ">> >>
    /\ ClientChunks(rgOut.written) = << <<"a">>, <<"b", " ">> >>

(***************************************************************************)
(* The server: handleChat for one request (server/index.ts lines 147-300). *)
(* The response records the calls made on it: out holds what was written   *)
(* (an SSE event by its name and payload, relayed text by its bytes), and  *)
(* late tells that something was written after end().  closed: the client  *)
(* connection is gone; finished: 'finish' was emitted.                     *)
(***************************************************************************)
Running == {"pending", "open"}

\* res.write
Write(r, item) == [r EXCEPT !.out = Append(@, item), !.late = @ \/ r.ended]

\* lines 137-140
WriteSSEEvent(r, eventName, payload) ==
    Write(r, [k |-> "event", name |-> eventName, v |-> Stringify(payload)])

EndNever(r) == r

\* if (!res.writableEnded) res.end()
EndIfOpen(r) == [r EXCEPT !.ended = TRUE]

\* the payload { error: text }
ErrorBody(text) == Obj1("error", JStr(<<text>>))

\* res.status(code).json({ error: text })
SendJson(r, code, text) ==
    [Write(r, [k |-> "json", name |-> <<code>>, v |-> Stringify(ErrorBody(text))])
        EXCEPT !.headersSent = TRUE, !.ended = TRUE]

\* lines 118-124: the headers of an event stream are set and flushed
SetSSEHeaders(r) == [r EXCEPT !.sse = TRUE, !.headersSent = TRUE]

\* A slip: the prompt is not trimmed before it is tested.
ExtractUserPromptUntrimmed(body) ==
    IF ~Truthy(body) THEN JNull
    ELSE LET prompt == OptGet(body, <<"prompt">>) IN
         IF prompt.t # "str" THEN JNull
         ELSE IF Len(prompt.s) = 0 THEN JNull
         ELSE JStr(prompt.s)

\* lines 83-89; null stands for the null it returns
ExtractUserPrompt(body) ==
    IF ~Truthy(body) THEN JNull
    ELSE LET prompt == OptGet(body, <<"prompt">>) IN
         IF prompt.t # "str" THEN JNull
         ELSE IF Len(Trim(prompt.s)) = 0 THEN JNull
         ELSE JStr(Trim(prompt.s))


\* lines 147-158, with no key
CheckAPIKeyMissing(r) ==
    EndIfOpen(WriteSSEEvent(r, ErrorName, ErrorBody("Missing OPENAI_API_KEY on server")))

\* A slip: the response is ended without the error event.
HandleBadUpstreamSilent(r) == EndIfOpen(r)

\* lines 197-204, after upstream.text() has resolved
HandleBadUpstream(r) ==
    EndIfOpen(WriteSSEEvent(r, ErrorName, UpstreamErrorBody))

\* lines 232-242: the catch and finally of passThroughSSE
PassThroughCatch(r, isAbort) ==
    EndIfOpen(IF ~isAbort /\ ~r.ended
              THEN WriteSSEEvent(r, ErrorName, ErrorBody("Stream read error"))
              ELSE r)

\* lines 284-298: the catch of handleChat
HandleChatCatch(r, isAbort) ==
    IF r.headersSent
    THEN IF ~r.ended
         THEN [(IF ~isAbort
                THEN WriteSSEEvent(r, ErrorName, ErrorBody("Internal server error"))
                ELSE r) EXCEPT !.ended = TRUE]
         ELSE r
    ELSE SendJson(r, "500", "Internal server error")

\* TextDecoder.decode(value) without the stream option: what is left
\* incomplete at the end of the value decodes to U+FFFD
Decode(value) ==
    LET d == DecodeStream(<<>>, value, <<>>) IN d.out \o DecodeFlush(d.pend)

\* res.write(chunk) of a string: its UTF-8 bytes
RECURSIVE EncodeUtf8(_)
EncodeUtf8(str) ==
    IF str = <<>> THEN <<>>
    ELSE (CASE Head(str) = "e'" -> <<"C3", "A9">>
            [] Head(str) = Replacement -> <<"EF", "BF", "BD">>
            [] OTHER -> <<Head(str)>>) \o EncodeUtf8(Tail(str))

\* lines 229-230
RelayChunk(r, value) ==
    Write(r, [k |-> "text", name |-> <<>>, v |-> EncodeUtf8(Decode(value))])

\* controller.abort() by a listener of attachAbortHandlers (lines 165-172)
AbortUpstream(c) == IF c.listening THEN [c EXCEPT !.aborted = TRUE] ELSE c

\* A slip: the event is written for an empty chunk list too.
SendChunksAlways(r, chunkTexts) ==
    WriteSSEEvent(r, RetrievedChunksName,
                  Obj1("chunks", JArr([i \in 1..Len(chunkTexts) |-> JStr(chunkTexts[i])])))

\* lines 269-272
SendChunks(r, chunkTexts) ==
    IF Len(chunkTexts) > 0
    THEN WriteSSEEvent(r, RetrievedChunksName,
                       Obj1("chunks", JArr([i \in 1..Len(chunkTexts) |-> JStr(chunkTexts[i])])))
    ELSE r

\* what the retrieval service answers to the search of a chat request: the
\* call fails, the answer is not ok, or it is ok with no, blank or usable hits
ServerAnswers ==
    {[kind |-> "throw", json |-> JUndef], [kind |-> "notok", json |-> JUndef],
     [kind |-> "ok", json |-> JNull]}
    \cup {[kind |-> "ok", json |-> Obj1("results", JArr(hs))] :
             hs \in {<<>>, <<Hit(JStr(<<" ">>))>>, <<Hit(JStr(<<"s1">>))>>,
                     <<Hit(JStr(<<"s1">>)), Hit(JStr(<<>>)), Hit(JStr(<<"s2">>))>>}}

\* request bodies: none, without a prompt, with a prompt that is not a string,
\* is empty or blank, and with prompts that have text
RequestBodies ==
    {JUndef, JObj(<<>>, <<>>), Obj1("history", JArr(<<>>))}
    \cup {Obj1("prompt", v) : v \in {JNull, JNum("5"), JStr(<<>>), JStr(<<SP, SP>>),
                                      JStr(<<"q">>), JStr(<<SP, "q", SP>>)}}

MaxBody == 3

\* upstream bodies: well-formed UTF-8 with a two-byte character
UpstreamBodies ==
    {SubSeq(<<"C3", "A9", "a", "C3", "A9">>, 1, n) : n \in {0, MaxBody - 1, MaxBody}}

HcInit ==
    /\ hcReq \in [body : RequestBodies, key : BOOLEAN]
    /\ hcPc = "start"
    /\ hcHow = "none"
    /\ res = ResInit
    /\ ctl = CtlInit
    /\ up \in {UpInit(b) : b \in UpstreamBodies}
    /\ rgResp \in ServerAnswers
    /\ rgOut = RgPending
    /\ MdIdle
    /\ tpInput = <<>>
    /\ tpChunks = JUndef
    /\ tpOut = TpPending
    /\ ExIdle
    /\ SseIdle
    /\ ChatInit

HcOthers == <<rgVars, mdVars, exVars, sseVars, chatVars, tpVars>>

\* lines 254-267: up to the await of buildMessagesWithRAG
HandleChatStart ==
    /\ hcPc = "start"
    /\ IF ExtractUserPrompt(hcReq.body) = JNull
       THEN /\ res' = SendJson(res, "400", "Prompt is required")
            /\ hcPc' = "done"
            /\ hcHow' = "no prompt"
       ELSE IF ~hcReq.key
       THEN /\ res' = CheckAPIKeyMissing(SetSSEHeaders(res))
            /\ hcPc' = "done"
            /\ hcHow' = "no key"
       ELSE /\ res' = SetSSEHeaders(res)
            /\ hcPc' = "rag"
            /\ hcHow' = hcHow
    /\ UNCHANGED <<hcReq, ctl, up, HcOthers>>

\* lines 267-277: buildMessagesWithRAG resolves with the chunk texts searchRag
\* made of the retrieval service's answer (none when it failed), the chunks
\* are sent, the controller is made, the listeners are attached
\* and the upstream request is started
RagSettles ==
    /\ hcPc = "rag"
    /\ res' = SendChunks(res, SearchRag(rgResp))
    /\ ctl' = [made |-> TRUE, listening |-> TRUE, aborted |-> FALSE]
    /\ up' = [up EXCEPT !.st = "pending"]
    /\ hcPc' = "fetch"
    /\ UNCHANGED <<hcReq, hcHow, HcOthers>>

\* lines 277-283: the fetch of createStream settles.  After an abort it
\* rejects with an AbortError; otherwise it rejects with another error, or
\* resolves with a response that is ok and has a body, or with one that is not.
FetchSettles ==
    /\ hcPc = "fetch"
    /\ IF ctl.aborted
       THEN /\ res' = HandleChatCatch(res, TRUE)
            /\ up' = [up EXCEPT !.st = "closed"]
            /\ hcPc' = "done"
            /\ hcHow' = "abort"
       ELSE \/ /\ res' = HandleChatCatch(res, FALSE)
               /\ up' = [up EXCEPT !.st = "closed"]
               /\ hcPc' = "done"
               /\ hcHow' = "fetch failed"
            \/ /\ up' = [up EXCEPT !.st = "open"]
               /\ hcPc' \in {"read", "text"}
               /\ UNCHANGED <<res, hcHow>>
    /\ UNCHANGED <<hcReq, ctl, HcOthers>>

\* lines 197-204: upstream.text() of handleBadUpstream settles
TextSettles ==
    /\ hcPc = "text"
    /\ IF ctl.aborted
       THEN /\ res' = HandleChatCatch(res, TRUE)
            /\ hcHow' = "abort of bad upstream"
       ELSE \/ /\ res' = HandleBadUpstream(res)
               /\ hcHow' = "bad upstream"
            \/ /\ res' = HandleChatCatch(res, FALSE)
               /\ hcHow' = "text failed"
    /\ up' = [up EXCEPT !.st = "closed"]
    /\ hcPc' = "done"
    /\ UNCHANGED <<hcReq, ctl, HcOthers>>

\* lines 223-242: reader.read() settles
ReadSettles ==
    /\ hcPc = "read"
    /\ IF ctl.aborted
       THEN /\ res' = PassThroughCatch(res, TRUE)
            /\ up' = [up EXCEPT !.st = "closed"]
            /\ hcPc' = "done"
            /\ hcHow' = "abort"
       ELSE \/ /\ up.rest # <<>>
               /\ \E n \in 1..Len(up.rest) :
                     LET value == SubSeq(up.rest, 1, n) IN
                     /\ up' = [up EXCEPT !.rest = SubSeq(@, n + 1, Len(@)),
                                         !.reads = @ \o value]
                     /\ IF res.ended
                        THEN /\ res' = PassThroughCatch(res, TRUE)
                             /\ hcPc' = "done"
                             /\ hcHow' = "ended"
                        ELSE /\ res' = RelayChunk(res, value)
                             /\ UNCHANGED <<hcPc, hcHow>>
            \/ /\ up.rest = <<>>
               /\ res' = PassThroughCatch(res, TRUE)
               /\ up' = [up EXCEPT !.st = "closed"]
               /\ hcPc' = "done"
               /\ hcHow' = "eof"
            \/ /\ res' = PassThroughCatch(res, FALSE)
               /\ up' = [up EXCEPT !.st = "closed"]
               /\ hcPc' = "done"
               /\ hcHow' = "read failed"
    /\ UNCHANGED <<hcReq, ctl, HcOthers>>

\* the client goes away: 'close' is emitted on the response, once, to the
\* listeners attached at that moment
ClientClose ==
    /\ hcPc # "unused"
    /\ ~res.closed
    /\ ~res.finished
    /\ res' = [res EXCEPT !.closed = TRUE]
    /\ ctl' = AbortUpstream(ctl)
    /\ UNCHANGED <<hcReq, hcPc, hcHow, up, HcOthers>>

\* the ended response has been handed to a connection that is still there:
\* 'finish' (and then 'close') is emitted
ResFinish ==
    /\ res.ended
    /\ ~res.closed
    /\ ~res.finished
    /\ res' = [res EXCEPT !.finished = TRUE]
    /\ ctl' = AbortUpstream(ctl)
    /\ UNCHANGED <<hcReq, hcPc, hcHow, up, HcOthers>>

HandlerStep == HandleChatStart \/ RagSettles \/ FetchSettles \/ TextSettles \/ ReadSettles

SrvNext == HandlerStep \/ ClientClose \/ ResFinish

SpecServer == HcInit /\ [][SrvNext]_vars

\* every await of the handler settles, and an ended response is flushed
SpecServerLive == SpecServer /\ WF_vars(HandlerStep) /\ WF_vars(ResFinish)

\* C25  Whenever the client disconnects or the response finishes while the
\* upstream model request is running, the upstream request is eventually
\* aborted.
C25_UpstreamAborted ==
    ((res.closed \/ res.finished) /\ up.st \in Running) ~> ctl.aborted

\* C26  On every path of the /api/chat handler (invalid prompt, missing API
\* key, retrieval or upstream request failure, non-OK upstream, upstream read
\* error, client abort, normal end of upstream) the client response is
\* eventually ended, and nothing is written to it after it has been ended.
C26_ResponseEnded == []~res.late /\ <>res.ended

\* the client went away while the body was relayed: the read was aborted and
\* the response ended without an error event
C26_Witness ==
    /\ hcHow = "abort"
    /\ res.closed
    /\ res.ended
    /\ up.reads # <<>>
    /\ \A i \in 1..Len(res.out) : res.out[i].name # ErrorName

\* the bytes of the relayed text written to the response, in order
RECURSIVE RelayedBytes(_)
RelayedBytes(out) ==
    IF out = <<>> THEN <<>>
    ELSE (IF Head(out).k = "text" THEN Head(out).v ELSE <<>>) \o RelayedBytes(Tail(out))

\* C27  passThroughSSE relays the upstream body verbatim: when the upstream
\* body has been read to its end, the data written to the client response is
\* the concatenation of the upstream reads in order, however the upstream
\* bytes were divided into reads.
C27_RelayVerbatim ==
    hcHow = "eof" => RelayedBytes(res.out) = up.reads

\* C28  At most one visual-update callback is scheduled at any time, the one
\* whose handle rafIdRef holds: a fragment queued while a callback is pending
\* never schedules a second one, and the handle is cleared when the callback
\* fires or is cancelled.
C28_OneCallbackScheduled ==
    /\ [](frames = IF rafId = 0 THEN {} ELSE {rafId})
    /\ [][/\ Len(chunkQueue') > Len(chunkQueue) /\ rafId # 0
             => frames' = frames /\ rafId' = rafId
          /\ \A h \in frames \ frames' : rafId' = 0]_vars

\* two fragments wait in the queue for the one callback scheduled
C28_Witness ==
    /\ Len(chunkQueue) = 2
    /\ rafId # 0
    /\ frames = {rafId}

\* C29  An assistant message's content changes only while its stream is
\* active: in every state where sending is false the pending queue is empty,
\* and no step taken there changes the content of a message.
C29_FrozenWhenIdle ==
    /\ [](~sending => chunkQueue = <<>>)
    /\ [][~sending => \A i \in 1..Len(messages) : messages'[i].content = messages[i].content]_vars

\* C30  Once the done sentinel has been received on a stream, no text carried
\* by a later message event of the same stream is appended to the assistant
\* message (st[k].frags are the texts of stream k handed to
\* appendAssistantToken).
C30_SentinelEndsText ==
    [][\A k \in sentinel : st'[k].frags = st[k].frags]_vars

(***************************************************************************)
(* Deltas without text.                                                    *)
(***************************************************************************)
\* C31  A delta whose string contents concatenate to the empty string is
\* extracted as null and yields no fragment; handing it to the callback
\* changes neither the transcript, nor the queue, nor the scheduled frames,
\* and every assistant message of the transcript has a non-empty content.
C31_EmptyDeltaIgnored ==
    /\ [](/\ \A evt \in EmptyDeltaEvents :
               ExtractedData[evt].kind = "null" /\ FragmentOf(evt) = <<>>
          /\ \A i \in 1..Len(messages) :
               messages[i].role = "assistant" => messages[i].content # <<>>)
    /\ [][progVars' # progVars =>
            \A k \in Streams, evt \in EmptyDeltaEvents : ~OnEvent(k, evt)]_vars

\* a stream that has created no message yet, and one whose message exists
\* with no frame scheduled, can be handed a role-only delta
C31_Witness ==
    /\ \E k \in Streams :
          /\ st[k].pc = "read"
          /\ ~hasStarted
          /\ messages[Len(messages)].role = "user"
          /\ \A evt \in EmptyDeltaEvents : ENABLED OnEvent(k, evt)
    /\ \E i \in 1..Len(messages) : messages[i].role = "assistant"

(***************************************************************************)
(* processLine on field lines: leading spaces, other lines, event names.   *)
(***************************************************************************)
\* lines with no, one and two spaces after the colon, comments, unknown
\* fields, near misses of the two prefixes, and the empty line
FieldLines ==
    {<<>>,
     DataPrefix \o <<"x">>, DataPrefix \o <<SP, "x">>, DataPrefix \o <<SP, SP, "x", CR>>,
     DataPrefix \o <<SP>>,
     EventPrefix \o <<"e">>, EventPrefix \o <<SP, "e", CR>>, EventPrefix \o <<SP, SP, "e">>,
     EventPrefix \o <<SP>>,
     <<":", "c">>, <<"i", "d", ":", "1", CR>>, <<SP>> \o DataPrefix \o <<"x">>,
     <<"d", "a", "t", "a">>, <<"e", "v", "e", "n", "t", SP, ":", "e">>}

SpecFields == LinesInit /\ [][\E line \in FieldLines : FeedLine(line)]_vars

\* the line just processed, less its carriage return
LineFed == StripCR(sseLine')

\* the text after the first n characters of a line, less one leading space
\* when it has one
AfterColon(line, n) ==
    LET rest == SubSeq(line, n + 1, Len(line)) IN
    IF rest # <<>> /\ rest[1] = SP THEN SubSeq(rest, 2, Len(rest)) ELSE rest

HasPrefix(line, pre) == Len(line) >= Len(pre) /\ SubSeq(line, 1, Len(pre)) = pre

\* C32  A data: line appends its value less one leading space (and no more)
\* to the pending data; an event: line makes that value the pending name
\* ("message" when it is empty); a non-empty line with neither prefix changes
\* nothing; and after every empty line the pending name is "message", so a
\* name does not carry over to the next record.
C32_FieldLines ==
    [][ssePos' = ssePos + 1 =>
        /\ HasPrefix(LineFed, DataPrefix) =>
              rd' = [rd EXCEPT !.dataLines = Append(@, AfterColon(LineFed, 5))]
        /\ HasPrefix(LineFed, EventPrefix) =>
              rd' = [rd EXCEPT !.currentEvent =
                        IF AfterColon(LineFed, 6) = <<>> THEN MessageName
                        ELSE AfterColon(LineFed, 6)]
        /\ (/\ LineFed # <<>>
            /\ ~HasPrefix(LineFed, DataPrefix)
            /\ ~HasPrefix(LineFed, EventPrefix)) => rd' = rd
        /\ LineFed = <<>> =>
              /\ rd'.currentEvent = MessageName
              /\ \A i \in (Len(rd.emitted) + 1)..Len(rd'.emitted) :
                    rd'.emitted[i].event = rd.currentEvent]_vars

\* an event: line and a data: line with two spaces after the colon have each
\* left one of them, the empty line after them has emitted the record and the
\* pending name is "message" again
C32_Witness ==
    /\ sseLine = <<>>
    /\ rd.emitted = <<SseRecord(<<SP, "e">>, <<SP, "x">>)>>
    /\ rd.currentEvent = MessageName
    /\ rd.dataLines = <<>>

(***************************************************************************)
(* Message identifiers.                                                    *)
(***************************************************************************)
\* C33  The identifiers of the messages of the transcript are pairwise
\* distinct, so an update scoped to one identifier changes one message.
C33_IdsDistinct ==
    \A i, j \in 1..Len(messages) : i # j => messages[i].id # messages[j].id

(***************************************************************************)
(* The retrieved_chunks event of a chat request.                           *)
(***************************************************************************)
\* the places of the response at which a retrieved_chunks event was written
ChunkEventsAt(out) ==
    {i \in 1..Len(out) : out[i].k = "event" /\ out[i].name = RetrievedChunksName}

\* the usable texts of the retrieval answer, none when the retrieval failed
Retrieved == TextsOf(SelectSeq(ResultsOf(rgResp), NonBlankText))

\* the array a client reads out of a written event
ChunksOf(item) ==
    LET arr == OptGet(JSONParse(item.v).v, <<"chunks">>) IN
    [i \in 1..Len(arr.kids) |-> arr.kids[i].s]

\* the handler has got past the await of buildMessagesWithRAG
PastRetrieval ==
    \/ hcPc \in {"fetch", "text", "read"}
    \/ hcPc = "done" /\ hcHow \notin {"no prompt", "no key"}

\* C34  The response of a chat request holds at most one retrieved_chunks
\* event; it is there exactly when the retrieval gave a non-empty chunk list,
\* carries that list, and precedes everything relayed from the model (it is
\* the first item written); when the retrieval failed or gave nothing, the
\* upstream request is started all the same, without the event.
C34_ChunksEventOnce ==
    /\ Cardinality(ChunkEventsAt(res.out)) <= 1
    /\ \A i \in ChunkEventsAt(res.out) :
          /\ ChunksOf(res.out[i]) # <<>>
          /\ \A j \in 1..Len(res.out) : res.out[j].k = "text" => i < j
    /\ ~PastRetrieval => ChunkEventsAt(res.out) = {}
    /\ PastRetrieval =>
          /\ up.st # "none"
          /\ IF Retrieved = <<>> THEN ChunkEventsAt(res.out) = {}
             ELSE ChunkEventsAt(res.out) = {1} /\ ChunksOf(res.out[1]) = Retrieved

\* a request whose retrieval gave two usable texts and a blank one has had
\* the event written, with the two texts, and then model text relayed to the
\* end of the upstream body
C34_Witness ==
    /\ hcHow = "eof"
    /\ Len(Retrieved) = 2
    /\ ChunkEventsAt(res.out) = {1}
    /\ \E j \in 1..Len(res.out) : res.out[j].k = "text"

\* a request whose retrieval failed has had model text relayed
C34_FailedRetrievalProceeds ==
    /\ hcHow = "eof"
    /\ rgResp.kind = "throw"
    /\ \E j \in 1..Len(res.out) : res.out[j].k = "text"

(***************************************************************************)
(* Requests without a usable prompt.                                       *)
(***************************************************************************)
\* the body has no prompt, or one that is not a string, or one without any
\* character other than white space
PromptInvalid(body) ==
    \/ body.t # "obj"
    \/ \A i \in 1..Len(body.keys) : body.keys[i] # <<"prompt">>
    \/ \E i \in 1..Len(body.keys) :
          /\ body.keys[i] = <<"prompt">>
          /\ \/ body.kids[i].t # "str"
             \/ \A c \in 1..Len(body.kids[i].s) : body.kids[i].s[c] = SP

\* C35  A chat request whose prompt is missing, not a string, or empty
\* after trimming is answered with status 400 and a JSON error, and with
\* nothing else: no event-stream header is set, no event is written, the
\* retrieval is not called and no model request is made.
C35_BadPromptRejected ==
    PromptInvalid(hcReq.body) =>
        \/ hcPc = "start" /\ res.out = <<>> /\ ~res.headersSent
        \/ /\ hcPc = "done"
           /\ hcHow = "no prompt"
           /\ res.out = <<[k |-> "json", name |-> <<"400">>,
                          v |-> Stringify(Obj1("error", JStr(<<"Prompt is required">>)))]>>
           /\ res.ended
           /\ ~res.sse
           /\ up.st = "none"
           /\ ~ctl.made

\* a request whose prompt is two spaces has been answered with status 400
C35_Witness ==
    /\ hcReq.body = Obj1("prompt", JStr(<<SP, SP>>))
    /\ hcReq.key
    /\ hcHow = "no prompt"
    /\ Len(res.out) = 1

(***************************************************************************)
(* Refusals: the server has no key or the model answers badly, and the     *)
(* client reads the response.                                              *)
(***************************************************************************)
\* Either the server handles one chat request, or the client handles
\* streams that carry what the server writes when it refuses: text, and one
\* error event after which the response has ended.
RefusalEvents == ServerErrorEvents

RefusalNext ==
    \/ SrvNext
    \/ hcPc = "unused" /\ ChatSteps(RefusalEvents, TRUE, TRUE)

SpecRefusal == (HcInit \/ Init) /\ [][RefusalNext]_vars

\* the places of the response at which an error event, and relayed model
\* text, was written
ErrorEventsAt(out) == {i \in 1..Len(out) : out[i].k = "event" /\ out[i].name = ErrorName}
TextAt(out) == {i \in 1..Len(out) : out[i].k = "text"}

\* the handler has returned on one of the ways `hows`
ReturnedBy(hows) == hcPc = "done" /\ hcHow \in hows

\* the response holds one error event, one the client knows, and no model
\* text, and has been ended
OneErrorWritten ==
    /\ Cardinality(ErrorEventsAt(res.out)) = 1
    /\ \A i \in ErrorEventsAt(res.out) : Evt(res.out[i].name, res.out[i].v) \in ServerErrorEvents
    /\ TextAt(res.out) = {}
    /\ res.ended

\* the text an error event carries
ErrorTextOf(evt) == OptGet(ParsedData[evt].v, <<"error">>)

\* a stream that received an error event of the server and no text has
\* created no message; while it is the current stream an error text of the
\* server is displayed, and when it is over the loading state has been left
ClientShowsError ==
    \A k \in sentinel :
        st[k].frags = <<>> =>
            /\ st[k].msg = 0
            /\ controllerRef = k /\ st[k].pc \in {"read", "aborting", "completed", "cancelled"}
                 => error \in {ErrorTextOf(evt) : evt \in ServerErrorEvents}
            /\ controllerRef = k /\ st[k].pc \in {"completed", "cancelled"} => ~sending

\* the step that hands an error event of the server to the callback displays
\* that event's text
ErrorTextDisplayed ==
    \A k \in sentinel' \ sentinel :
        \E evt \in ServerErrorEvents : error' = ErrorTextOf(evt) /\ OnEvent(k, evt)

\* C36 as stated: when the server has no API key, or the upstream response
\* is not OK or has no body, the server writes exactly one error event and
\* ends the response without relaying model text; the client displays the
\* error's text, leaves the loading state and creates no assistant message.
C36_RefusalShown ==
    /\ [](/\ ReturnedBy({"no key", "bad upstream", "text failed", "abort of bad upstream"})
               => OneErrorWritten
          /\ ClientShowsError)
    /\ [][ErrorTextDisplayed]_vars

\* C36 amended: the same, unless the client has disconnected before the
\* answer of the bad upstream response was handled: then the response is
\* ended with no error event and no model text.
C36_RefusalShownUnlessGone ==
    /\ [](/\ ReturnedBy({"no key", "bad upstream", "text failed"}) => OneErrorWritten
          /\ ReturnedBy({"abort of bad upstream"}) =>
                /\ res.closed
                /\ ErrorEventsAt(res.out) = {}
                /\ TextAt(res.out) = {}
                /\ res.ended
          /\ ClientShowsError)
    /\ [][ErrorTextDisplayed]_vars

\* the upstream response was bad: the retrieved_chunks event and then the
\* error event were written to a client that is still there
C36_Witness ==
    /\ ReturnedBy({"bad upstream"})
    /\ Len(res.out) = 2
    /\ ErrorEventsAt(res.out) = {2}
    /\ res.finished

\* a stream that carried the server's upstream error is over: the error is
\* displayed
C36_ClientRefused ==
    \E k \in sentinel :
        /\ st[k].pc = "completed"
        /\ controllerRef = k
        /\ error = JStr(<<"Upstream error">>)
        /\ ~sending
        /\ messages[Len(messages)].role = "user"

(***************************************************************************)
(* The message list sent to the model: handleSend's request                *)
(* (Chat.tsx 264-286, api.ts createFetchSSETransport), the handler's       *)
(* reading of it (server/index.ts 254-267) and buildMessagesWithRAG        *)
(* (part_003 57-114).                                                      *)
(***************************************************************************)
\* Chat.tsx line 285: messages.map(m => ({ role: m.role, content: m.content }))
HistoryForServer(msgs) ==
    JArr([i \in 1..Len(msgs) |->
            JObj(<< <<"role">>, <<"content">> >>, <<JStr(<<msgs[i].role>>), JStr(msgs[i].content)>>)])

\* api.ts line 89: JSON.stringify({ prompt: text, history })
TransportBody(text, history) ==
    Stringify(JObj(<< <<"prompt">>, <<"history">> >>, <<JStr(text), history>>))

\* index.ts line 265
HistoryOf(body) ==
    LET history == OptGet(body, <<"history">>) IN
    IF history.t = "arr" THEN history.kids ELSE <<>>

\* A slip: the role of a history entry is not looked at.
ValidEntryAnyRole(h) == OptGet(h, <<"content">>).t = "str"

\* part_003 lines 72-74
ValidEntry(h) ==
    /\ OptGet(h, <<"role">>) \in {JStr(<<"user">>), JStr(<<"assistant">>)}
    /\ OptGet(h, <<"content">>).t = "str"

ModelMsg(role, content) == [role |-> role, content |-> content]

\* part_003 lines 63-66
SystemMessage ==
    ModelMsg(JStr(<<"system">>), <<"You are Study Buddy, a helpful biology tutor. Be precise, well-structured, and concise.">>)

\* part_003 lines 68-79
RECURSIVE HistoryMessages(_, _)
HistoryMessages(history, i) ==
    IF i > Len(history) THEN <<>>
    ELSE LET h == history[i] IN
         (IF ValidEntry(h)
          THEN <<ModelMsg(OptGet(h, <<"role">>), OptGet(h, <<"content">>).s)>>
          ELSE <<>>) \o HistoryMessages(history, i + 1)

\* part_003 lines 98-109; the instructions are one piece of text
FinalUserContent(userPrompt, chunkBlock) ==
    <<"Student Question:", "\n">> \o userPrompt \o <<"\n", "\n">>
    \o <<"Instructions: ...">> \o chunkBlock
    \o <<"\n", "\n", " Remember to always use markdown to format your response.">>

\* part_003 lines 57-114, for the chunk texts searchRag returned
BuildMessagesWithRAG(history, userPrompt, chunkTexts) ==
    <<SystemMessage>> \o HistoryMessages(history, 1)
    \o <<ModelMsg(JStr(<<"user">>), FinalUserContent(userPrompt, ChunkBlock(chunkTexts)))>>

\* the transcripts a send starts from hold at most MaxTranscript messages
MaxTranscript == 3

TranscriptMessages ==
    {Msg(id, "user", c, JUndef) : id \in {UserId(0)}, c \in {<<"q">>, <<"a", " ", "b">>}}
    \cup {Msg(id, "assistant", c, ch) : id \in {AssistantId(0)}, c \in {<<"a">>},
                                        ch \in {JUndef, JArr(<<JStr(<<"s1">>)>>)}}

Transcripts == UNION {[1..n -> TranscriptMessages] : n \in 0..MaxTranscript}

\* history entries of other clients: a role that is not allowed, a content
\* that is not a string or is missing, entries that are not objects
ForeignEntries ==
    {JObj(<< <<"role">>, <<"content">> >>, <<r, c>>) :
        r \in {JStr(<<"user">>), JStr(<<"system">>), JNum("5")},
        c \in {JStr(<<"x">>), JStr(<<>>), JNull}}
    \cup {Obj1("role", JStr(<<"assistant">>)), Obj1("content", JStr(<<"x">>)), JNull, JStr(<<"x">>)}

ForeignBodies ==
    {JObj(<< <<"prompt">>, <<"history">> >>, <<JStr(<<"q", " ">>), h>>) :
        h \in {JArr(es) : es \in [1..2 -> ForeignEntries]}
              \cup {JNull, JStr(<<"x">>), Obj1("role", JStr(<<"user">>))}}
    \cup {Obj1("prompt", JStr(<<"q">>))}

MsgInit ==
    /\ messages \in Transcripts
    /\ inputValue \in {<<"q">>, <<SP, "a", SP>>}
    /\ sending = FALSE
    /\ error = JNull
    /\ controllerRef = 0
    /\ hasStarted = FALSE
    /\ pendingId = NoId
    /\ chunkQueue = <<>>
    /\ rafId = 0
    /\ pendingChunks = JNull
    /\ frames = {}
    /\ now = 0
    /\ st = [k \in Streams |-> StInit]
    /\ sentinel = {}
    /\ hcReq = [body |-> JUndef, key |-> TRUE]
    /\ hcPc = "unused"
    /\ hcHow = "none"
    /\ res = ResInit
    /\ ctl = CtlInit
    /\ up = UpInit(<<>>)
    /\ rgResp \in {[kind |-> "throw", json |-> JUndef],
                   [kind |-> "ok", json |-> Obj1("results", JArr(<<Hit(JStr(<<"s1">>))>>))]}
    /\ rgOut = RgPending
    /\ MdIdle
    /\ tpInput = <<>>
    /\ tpChunks = JUndef
    /\ tpOut = TpPending
    /\ ExIdle
    /\ SseIdle

\* Chat.tsx lines 264-286 and api.ts: handleSend posts the request; the body
\* is what the server's JSON parser makes of the text sent
ClientPosts ==
    /\ hcReq.body = JUndef
    /\ ~sending
    /\ Trim(inputValue) # <<>>
    /\ hcReq' = [hcReq EXCEPT !.body =
                    JSONParse(TransportBody(Trim(inputValue), HistoryForServer(messages))).v]
    /\ now' \in DateNow
    /\ messages' = Append(messages, Msg(UserId(now'), "user", Trim(inputValue), JUndef))
    /\ inputValue' = <<>>
    /\ sending' = TRUE
    /\ UNCHANGED <<error, controllerRef, hasStarted, pendingId, chunkQueue, rafId,
                   pendingChunks, frames, st, sentinel, hcPc, hcHow, res, ctl, up,
                   rgVars, mdVars, tpVars, exVars, sseVars>>

\* another client posts a request
ForeignPosts ==
    /\ hcReq.body = JUndef
    /\ \E body \in ForeignBodies : hcReq' = [hcReq EXCEPT !.body = body]
    /\ UNCHANGED <<chatVars, hcPc, hcHow, res, ctl, up, rgVars, mdVars, tpVars, exVars, sseVars>>

\* index.ts lines 254-267: the handler reads the prompt and the history and
\* builds the messages
ServerBuilds ==
    /\ hcReq.body # JUndef
    /\ hcReq.key
    /\ ExtractUserPrompt(hcReq.body) # JNull
    /\ ~rgOut.done
    /\ LET chunkTexts == SearchRag(rgResp) IN
       rgOut' = [done |-> TRUE, chunkTexts |-> chunkTexts,
                 chunkBlock |-> ChunkBlock(chunkTexts),
                 written |-> WriteRetrievedChunks(chunkTexts),
                 messages |-> BuildMessagesWithRAG(HistoryOf(hcReq.body),
                                                   ExtractUserPrompt(hcReq.body).s, chunkTexts)]
    /\ UNCHANGED <<rgResp, hcVars, chatVars, mdVars, tpVars, exVars, sseVars>>

MsgNext == ClientPosts \/ ForeignPosts \/ ServerBuilds

SpecMessages == MsgInit /\ [][MsgNext]_vars

\* the history entries of a body with role user or assistant and a string as
\* content, as messages
AllowedEntry(h) ==
    /\ h.t = "obj"
    /\ \E i \in 1..Len(h.keys) :
          h.keys[i] = <<"role">> /\ h.kids[i].t = "str" /\ h.kids[i].s \in {<<"user">>, <<"assistant">>}
    /\ \E i \in 1..Len(h.keys) : h.keys[i] = <<"content">> /\ h.kids[i].t = "str"

EntryMessage(h) ==
    [role |-> CHOOSE v \in {h.kids[i] : i \in {j \in 1..Len(h.keys) : h.keys[j] = <<"role">>}} : TRUE,
     content |-> (CHOOSE v \in {h.kids[i] : i \in {j \in 1..Len(h.keys) : h.keys[j] = <<"content">>}} : TRUE).s]

AllowedOf(body) ==
    LET hs == IF body.t = "obj" /\ \E i \in 1..Len(body.keys) :
                                      body.keys[i] = <<"history">> /\ body.kids[i].t = "arr"
              THEN (CHOOSE v \in {body.kids[i] : i \in {j \in 1..Len(body.keys) : body.keys[j] = <<"history">>}} : TRUE).kids
              ELSE <<>>
        kept == SelectSeq(hs, AllowedEntry)
    IN [i \in 1..Len(kept) |-> EntryMessage(kept[i])]

\* the text contains the prompt, framed as the student's question
BuiltFrom(content, prompt) ==
    /\ Len(content) >= Len(prompt) + 2
    /\ SubSeq(content, 1, 2) = <<"Student Question:", "\n">>
    /\ SubSeq(content, 3, Len(prompt) + 2) = prompt

\* C37  The message list sent to the model is one system message, then the
\* valid history entries (role user or assistant, string content) in their
\* order, then one user message built from the current prompt; when the
\* request is handleSend's, the history is the transcript as it was before
\* the current user message, so the list has one message more than the
\* transcript has now.
C37_MessageList ==
    rgOut.done =>
        LET list == rgOut.messages
            n == Len(list)
            prompt == ExtractUserPrompt(hcReq.body).s
        IN /\ n >= 2
           /\ list[1].role = JStr(<<"system">>)
           /\ SubSeq(list, 2, n - 1) = AllowedOf(hcReq.body)
           /\ list[n].role = JStr(<<"user">>)
           /\ BuiltFrom(list[n].content, prompt)
           /\ sending =>
                /\ n = Len(messages) + 1
                /\ \A i \in 1..(Len(messages) - 1) :
                      list[i + 1] = [role |-> JStr(<<messages[i].role>>), content |-> messages[i].content]
                /\ messages[Len(messages)].content = prompt

\* the list was built for a send that started from a transcript of three
\* messages, with a prompt that lost its spaces
C37_Witness ==
    /\ rgOut.done
    /\ sending
    /\ Len(messages) = 4
    /\ Len(rgOut.messages) = 5
    /\ messages[4].content = <<"a">>
    /\ messages[3].role = "assistant"

\* the list was built for a request whose history holds a system entry and
\* an entry without content: both were left out
C37_ForeignFiltered ==
    /\ rgOut.done
    /\ ~sending
    /\ Len(HistoryOf(hcReq.body)) = 2
    /\ Len(rgOut.messages) = 2

(***************************************************************************)
(* Citation tags in escaped form in the output of toPlaceholderSpans.      *)
(***************************************************************************)
\* the escaped form of a complete tag, &lt;chunk_N&gt; or &lt;/chunk_N&gt;
\* with N of one to three digits, begins at position i of out
EscapedTagAt(out, i, lead) ==
    LET head == EscapeHtml(lead) \o ChunkWord
        rest == SubSeq(out, i + Len(head), Len(out))
    IN /\ IsPrefix(head, SubSeq(out, i, Len(out)))
       /\ \E d \in 1..3 :
             /\ Len(rest) >= d + 4
             /\ AllDigits(SubSeq(rest, 1, d))
             /\ SubSeq(rest, d + 1, d + 4) = EscapeHtml(<<">">>)

HasEscapedTag(out) ==
    \E i \in 1..Len(out) :
        EscapedTagAt(out, i, OpenLead) \/ EscapedTagAt(out, i, CloseLead)

\* C38  For every input text that holds no escaped tag itself, the output of
\* toPlaceholderSpans holds no citation tag in HTML-escaped form
\* (&lt;chunk_N&gt;, &lt;/chunk_N&gt;), also when one pair is written inside
\* another pair.
C38_NoEscapedTag ==
    tpOut.done /\ ~HasEscapedTag(tpInput) => ~HasEscapedTag(tpOut.text)

(***************************************************************************)
(* AnnotatedMarkdown (AnnotatedMarkdown.tsx lines 57-60) and the render of *)
(* Markdown (Markdown.tsx lines 75-90): the prepared text is balanced,     *)
(* parsed as Markdown, sanitized, made a DOM tree and decorated.  For a    *)
(* line of text with entities and span elements carrying data-chunk-id,    *)
(* marked leaves the inline HTML in place and DOMPurify keeps span         *)
(* elements and data attributes, so the tree is the one the HTML parser    *)
(* makes of the text.                                                      *)
(***************************************************************************)
Entities ==
    { [name |-> <<"&", "a", "m", "p", ";">>, char |-> "&"],
      [name |-> <<"&", "l", "t", ";">>, char |-> "<"],
      [name |-> <<"&", "g", "t", ";">>, char |-> ">"],
      [name |-> <<"&", "q", "u", "o", "t", ";">>, char |-> "\""],
      [name |-> <<"&", "#", "3", "9", ";">>, char |-> "'"] }

\* the characters of a text node: each character reference is its character
RECURSIVE DecodeEntities(_)
DecodeEntities(s) ==
    IF s = <<>> THEN <<>>
    ELSE LET es == {e \in Entities : StartsWith(s, e.name)} IN
         IF es = {} THEN <<Head(s)>> \o DecodeEntities(Tail(s))
         ELSE LET e == CHOOSE x \in es : TRUE IN
              <<e.char>> \o DecodeEntities(SubSeq(s, Len(e.name) + 1, Len(s)))

SpanLead == <<"<", "s", "p", "a", "n", " ", "d", "a", "t", "a", "-", "c", "h", "u", "n", "k", "-", "i", "d", "=", "\"">>

\* a span element with a data-chunk-id attribute begins at the head of s
SpanElementAtHead(s) ==
    /\ StartsWith(s, SpanLead)
    /\ \E q \in (Len(SpanLead) + 1)..(Len(s) - 1) : s[q] = "\"" /\ s[q + 1] = ">"

\* Markdown.tsx lines 79-87: marked.parse, DOMPurify.sanitize and innerHTML
\* for one line of text, entities and span elements with data-chunk-id; the
\* paragraph element around the line is left out.  A span element reaches to
\* its end tag, or to the end of the text when there is none.
RECURSIVE ParseInline(_)
ParseInline(s) ==
    IF s = <<>> THEN <<>>
    ELSE IF SpanElementAtHead(s)
    THEN LET q == Least({p \in (Len(SpanLead) + 1)..(Len(s) - 1) : s[p] = "\"" /\ s[p + 1] = ">"})
             attr == SubSeq(s, Len(SpanLead) + 1, q - 1)
             ends == {j \in (q + 2)..Len(s) : StartsWith(SubSeq(s, j, Len(s)), SpanClose)}
             stop == IF ends = {} THEN Len(s) + 1 ELSE Least(ends)
         IN <<SpanNode(attr, ParseInline(SubSeq(s, q + 2, stop - 1)))>>
            \o ParseInline(SubSeq(s, stop + Len(SpanClose), Len(s)))
    ELSE LET nexts == {i \in 2..Len(s) : SpanElementAtHead(SubSeq(s, i, Len(s)))}
             stop == IF nexts = {} THEN Len(s) + 1 ELSE Least(nexts)
         IN <<TextNode(DecodeEntities(SubSeq(s, 1, stop - 1)))>>
            \o ParseInline(SubSeq(s, stop, Len(s)))

\* message texts of at most MaxParts parts and MaxText characters: a letter,
\* a citation pair with index 1 or 2, and a span element with data-chunk-id
\* 1 or 2 written out in the text itself
MaxParts == 2
MaxText == 64

CitationPairs ==
    {PairText(n, i) : n \in {m \in Numbers : m.digits \in {<<"1">>, <<"2">>}},
                      i \in {j \in Inners : j.raw = <<"A", "T", "P">>}}

LiteralSpans == {SpanOpen(k) \o <<"x">> \o SpanClose : k \in 1..2}

Parts == {<<"x">>} \cup CitationPairs \cup LiteralSpans

RECURSIVE PartTexts(_)
PartTexts(n) ==
    IF n = 0 THEN {<<>>}
    ELSE {p \o t : p \in Parts, t \in PartTexts(n - 1)}

AmInit ==
    /\ tpInput \in {t \in UNION {PartTexts(n) : n \in 0..MaxParts} : Len(t) <= MaxText}
    /\ tpChunks \in ChunkArgs
    /\ tpOut = TpPending
    /\ MdIdle
    /\ SrvIdle
    /\ ExIdle
    /\ SseIdle
    /\ ChatInit

\* Markdown.tsx lines 75-90, with the prepared text and the chunks of
\* AnnotatedMarkdown.tsx line 59
MarkdownRender ==
    /\ tpOut.done
    /\ ~dcOut.done
    /\ dcRoot' = ParseInline(NormalizeStreamingMarkdown(tpOut.text))
    /\ dcChunks' = tpChunks
    /\ dcOut' = DcReturned(DecorateChunkPlaceholders(dcRoot', dcChunks'))
    /\ UNCHANGED <<nmVars, exVars, sseVars, chatVars, tpVars, srvVars>>

\* AnnotatedMarkdown.tsx lines 57-60
AnnotatedMarkdown == ToPlaceholderCall \/ MarkdownRender

SpecAnnotated == AmInit /\ [][AnnotatedMarkdown]_vars

\* the places of text where the opening tag of a pair with index K begins
\* (in the message texts every opening tag has its closing tag)
PairStarts(text, K) ==
    {i \in 1..Len(text) :
        StartsWith(SubSeq(text, i, Len(text)), OpenLead \o ChunkWord \o <<Digits[K + 1]>> \o <<">">>)}

\* the number of complete pairs of text with an index in 1..number of chunks
PairsInRange(text, chunks) ==
    IF NoChunks(chunks) THEN 0
    ELSE Cardinality(UNION {PairStarts(text, K) : K \in 1..Len(chunks.kids)})

KindCount(nodes, k) == Cardinality({i \in 1..Len(nodes) : nodes[i].kind = k})

\* C39  After a message is rendered, there are as many citation widgets as
\* the message text has complete pairs with an index in range, and the
\* placeholder spans the decorator looks at (it looks at none without chunks)
\* are those pairs: a span element with data-chunk-id that stands in the
\* message text itself is not among them.
C39_WidgetsFromPairs ==
    dcOut.done =>
        /\ KindCount(dcOut.root, "annot-ref") = PairsInRange(tpInput, tpChunks)
        /\ ~NoChunks(dcChunks) => KindCount(dcRoot, "span") = PairsInRange(tpInput, tpChunks)

\* a text without a written-out span element: two pairs, two widgets
C39_PairsOnly ==
    /\ dcOut.done
    /\ PairsInRange(tpInput, tpChunks) = 2
    /\ KindCount(dcOut.root, "annot-ref") = 2
    /\ Len(dcOut.root) = 2
====
